---- MODULE Spec2Model ----
(***************************************************************************)
(* The terminal board view engine of agentwatch (package tui): the Board   *)
(* model behind bubbletea's Update loop, its column layout and scroll      *)
(* correction, the delete / clear-all confirmation dialogs and the task    *)
(* files the board reads and archives.                                     *)
(*                                                                         *)
(* Indices (activeCol, activeRow, scrollOff, rows) are 0-based as in the   *)
(* Go code; TLA+ sequences are 1-based, so a slice element s[i] is written *)
(* s[i + 1].                                                               *)
(***************************************************************************)
EXTENDS Integers, Sequences, FiniteSets, TLC

VARIABLES
    cfgStatuses,    \* cfg.Statuses: the configured status names, in order
    files,          \* the task directory: task id -> status stored in its file
    tasks,          \* Board.tasks
    columns,        \* Board.columns: <<[status, tasks, scrollOff]>>
    activeCol,      \* Board.activeCol
    activeRow,      \* Board.activeRow
    view,           \* Board.view
    width,          \* Board.width
    height,         \* Board.height
    err,            \* Board.err ("nil" when no error)
    deleteID,       \* Board.deleteID
    deleteTitle,    \* Board.deleteTitle
    clearAllCount,  \* Board.clearAllCount
    lastClickCol,   \* Board.lastClickCol
    lastClickRow,   \* Board.lastClickRow
    sinceClick,     \* b.now() - Board.lastClickTime, in ClickUnit steps, saturated
    titleSeq,       \* Board.titleSeq
    running,        \* the bubbletea program: "running", "quit" or "panic"
    watcher,        \* the watcher goroutine, its timer and the messages it sends
    call,           \* a call of a rendering helper: its arguments and result
    ticks,          \* the tea.Tick timers running and the TickMsgs they have sent
    creates,        \* the create commands, the lock file and next_id of the config
    archive,        \* the storage calls of an archive in progress, and the files' other fields
    last            \* history of the last processed message (not program state)

vars == <<cfgStatuses, files, tasks, columns, activeCol, activeRow, view, width,
          height, err, deleteID, deleteTitle, clearAllCount, lastClickCol,
          lastClickRow, sinceClick, titleSeq, running, watcher, call, ticks, creates,
          archive, last>>

----------------------------------------------------------------------------
(* Bounds of the model.                                                    *)

\* number of task files in the task directory
NumTasks == 3
\* terminal heights 0..MaxHeight
MaxHeight == 12
\* terminal widths 0..MaxWidth
MaxWidth == 2
\* sinceClick saturates at MaxSince units
MaxSince == 2
\* file events the watched directories deliver in a session
MaxEvents == 3
\* terminal heights 0..MaxTallHeight of the board of five equal cards
MaxTallHeight == 16
\* configured age thresholds: at most MaxThresholds, of 0..MaxHours hours
MaxThresholds == 3
MaxHours == 2
\* texts of at most MaxText characters, wrapped at widths 1..MaxWrapWidth
\* into at most 0..MaxLines lines
MaxText == 6
MaxWrapWidth == 6
MaxLines == 3
\* tea.Tick timers running at a time
MaxTicks == 3
\* create commands run on the board in a session
MaxCreators == 3
MaxChanges == 2

(* Program constants.                                                      *)

viewBoard == "viewBoard"
viewConfirmDelete == "viewConfirmDelete"
viewConfirmClearAll == "viewConfirmClearAll"
keyEsc == "esc"
boardChrome == 2
errorChrome == 1
ArchivedStatus == "archived"
defaultColWidth == 30
maxColWidth == 75
cardChrome == 4
maxBodyLines == 4
\* 500 * time.Millisecond, in units of 250 ms
doubleClickUnits == 2
\* debounceDelay, 100 * time.Millisecond, in units of 50 ms
debounceDelay == 2

TaskIds == 1..NumTasks

\* the ids of five more task files, all alike
EqualIds == 11..15

Min(a, b) == IF a < b THEN a ELSE b
Max(a, b) == IF a > b THEN a ELSE b

\* Op of the value of v: v is evaluated once, where it stands, as a Go
\* assignment x := v does
With(v, Op(_)) == CHOOSE r \in {Op(x) : x \in {v}} : TRUE

----------------------------------------------------------------------------
(* The configuration.                                                      *)

\* a board of one column, the smallest configuration Validate accepts
OneColumn == <<"todo", ArchivedStatus>>
\* config.DefaultStatuses, shortened to two columns
TwoColumns == <<"todo", "doing", ArchivedStatus>>
\* a configuration without the archived status, as config.InitAgent writes
NoArchive == <<"todo", "doing">>

Priorities == <<"low", "medium", "high", "critical">>

RECURSIVE IndexOf(_, _)
\* 0-based index of item in slice, or -1
IndexOf(slice, item) ==
    IF slice = <<>> THEN -1
    ELSE IF slice[1] = item THEN 0
    ELSE LET r == IndexOf(Tail(slice), item) IN IF r < 0 THEN -1 ELSE r + 1

contains(slice, item) == IndexOf(slice, item) >= 0

PriorityIndex(priority) == IndexOf(Priorities, priority)

IsArchivedStatus(names, s) == s = ArchivedStatus /\ contains(names, ArchivedStatus)

BoardStatuses(names) == SelectSeq(names, LAMBDA s : s # ArchivedStatus)

\* the statuses a task file carries under the configuration names
FileStatuses(names) == {names[i] : i \in 1..Len(names)} \cup {ArchivedStatus}

----------------------------------------------------------------------------
(* The task files. Everything but the status of a task is fixed per id;    *)
(* texts are sequences of one-character strings.                           *)

Shape(id) == IF id \in EqualIds THEN 1 ELSE ((id - 1) % 3) + 1

TaskTitle(id) == <<"fix", "api", "fix">>[Shape(id)]
TaskTags(id) == << <<>>, <<"web">>, <<>> >>[Shape(id)]
TaskPriority(id) == <<"high", "low", "high">>[Shape(id)]
TaskClaimedBy(id) == <<"", "Bash", "">>[Shape(id)]
TaskBody(id) == << <<>>, <<>>, <<"a", "b", " ", "c", "d">> >>[Shape(id)]

----------------------------------------------------------------------------
(* Text helpers. Every character is one column wide (ASCII), so            *)
(* lipgloss.Width is Len.                                                  *)

\* truncate: for one-column characters the trimming loop never runs
truncate(s, maxLen) ==
    LET m == IF maxLen < 4 THEN 4 ELSE maxLen
    IN  IF Len(s) <= m THEN s
        ELSE SubSeq(s, 1, Min(m - 3, Len(s))) \o <<".", ".", ".">>

RECURSIVE FieldsFrom(_, _, _)
FieldsFrom(s, i, word) ==
    IF i > Len(s) THEN (IF word = <<>> THEN <<>> ELSE <<word>>)
    ELSE IF s[i] = " "
         THEN (IF word = <<>> THEN <<>> ELSE <<word>>) \o FieldsFrom(s, i + 1, <<>>)
         ELSE FieldsFrom(s, i + 1, Append(word, s[i]))

\* strings.Fields
Fields(s) == FieldsFrom(s, 1, <<>>)

RECURSIVE JoinRestSkipsWord(_, _)
\* as JoinRest, but without the first of the remaining words
JoinRestSkipsWord(words, i) ==
    IF i >= Len(words) THEN <<>>
    ELSE <<" ">> \o words[i + 1] \o JoinRestSkipsWord(words, i + 1)

RECURSIVE JoinRest(_, _)
\* " " + w for every word from index i on
JoinRest(words, i) ==
    IF i > Len(words) THEN <<>> ELSE <<" ">> \o words[i] \o JoinRest(words, i + 1)

RECURSIVE wrapLoop(_, _, _, _, _, _)
\* the loop of wrapTitle over words[i..]; returns lines and the unflushed line
wrapLoop(words, i, lines, current, maxWidth, maxLines) ==
    IF i > Len(words) THEN [lines |-> lines, current |-> current]
    ELSE LET word == words[i] IN
         IF Len(current) = 0
         THEN wrapLoop(words, i + 1, lines, word, maxWidth, maxLines)
         ELSE IF Len(current) + 1 + Len(word) <= maxWidth
         THEN wrapLoop(words, i + 1, lines, current \o <<" ">> \o word,
                       maxWidth, maxLines)
         ELSE LET flushed == Append(lines, truncate(current, maxWidth)) IN
              IF Len(flushed) = maxLines - 1
              THEN [lines |-> flushed, current |-> word \o JoinRest(words, i + 1)]
              ELSE wrapLoop(words, i + 1, flushed, word, maxWidth, maxLines)

wrapTitle(title, maxWidth, maxLinesArg) ==
    LET maxLines == IF maxLinesArg < 1 THEN 1 ELSE maxLinesArg
    IN  IF Len(title) <= maxWidth \/ maxLines = 1
        THEN <<truncate(title, maxWidth)>>
        ELSE With(wrapLoop(Fields(title), 1, <<>>, <<>>, maxWidth, maxLines),
                  LAMBDA r : IF Len(r.current) > 0
                             THEN Append(r.lines, truncate(r.current, maxWidth))
                             ELSE r.lines)

----------------------------------------------------------------------------
(* Age colors. Durations are whole hours. The After string of a threshold  *)
(* is <<n>> for "nh" and <<>> for a string time.ParseDuration rejects.     *)

\* no helper is being called
NoCall == [fn |-> "none"]

Creators == 1..MaxCreators

\* no create command has been started; the config holds the next free id
NoCreates ==
    [holders |-> {},                      \* processes holding the flock on .lock
     nextId |-> NumTasks + 1,             \* next_id in the config file
     pc |-> [p \in Creators |-> "idle"],  \* where each runCreate is
     id |-> [p \in Creators |-> 0],       \* cfg.NextID as the process loaded it
     written |-> {}]                      \* ids of the task files written

\* no archive is in progress; no other process has changed a task file
NothingArchiving ==
    [pc |-> "idle",                       \* the handler Update is in: "idle",
                                          \* "delete" or "clearAll"
     content |-> [t \in TaskIds |-> {}],  \* per file: the changes of other
                                          \* processes its fields hold
     changed |-> [t \in TaskIds |-> {}],  \* per file: the changes other
                                          \* processes have written to it
     made |-> 0,                          \* changes other processes have made
     copy |-> [t \in TaskIds |-> {}],     \* per task: the fields as the
                                          \* handler read them
     todo |-> {},                         \* tasks executeClearAll has yet to write
     archived |-> {}]                     \* tasks the board has written as archived

\* Board.Init: the program runs the tickCmd it returns, one tea.Tick timer
BoardInit ==
    [timers |-> 1,     \* tea.Tick timers that have not fired yet
     queued |-> 0]     \* TickMsgs sent to the program and not yet processed

dimStyle == "241"

DefaultAgeThresholds ==
    << [After |-> <<0>>, Color |-> "242"], [After |-> <<1>>, Color |-> "34"],
       [After |-> <<24>>, Color |-> "226"], [After |-> <<72>>, Color |-> "208"],
       [After |-> <<168>>, Color |-> "196"] >>

\* time.ParseDuration
ParseDuration(s) ==
    IF Len(s) = 1 THEN [d |-> s[1], err |-> FALSE] ELSE [d |-> 0, err |-> TRUE]

RECURSIVE ParsedFrom(_, _)
\* the loop of AgeThresholdsDuration over thresholds[i..]
ParsedFrom(thresholds, i) ==
    IF i > Len(thresholds) THEN <<>>
    ELSE LET p == ParseDuration(thresholds[i].After) IN
         IF p.err THEN ParsedFrom(thresholds, i + 1)
         ELSE <<[After |-> p.d, Color |-> thresholds[i].Color]>>
                  \o ParsedFrom(thresholds, i + 1)

\* Config.AgeThresholdsDuration over the configured c.TUI.AgeThresholds
AgeThresholdsDuration(configured) ==
    ParsedFrom(IF Len(configured) = 0 THEN DefaultAgeThresholds ELSE configured, 1)

RECURSIVE ageStyleFrom(_, _, _)
\* the loop of ageStyle from index i down
ageStyleFrom(thresholds, i, d) ==
    IF i < 1 THEN dimStyle
    ELSE IF d >= thresholds[i].After THEN thresholds[i].Color
    ELSE ageStyleFrom(thresholds, i - 1, d)

\* ageStyle: the foreground color of the returned style
ageStyle(configured, d) ==
    LET thresholds == AgeThresholdsDuration(configured)
    IN  ageStyleFrom(thresholds, Len(thresholds), d)

----------------------------------------------------------------------------
(* Cards.                                                                  *)

\* The composed lines of a card. The text of the title and claim lines is
\* not modelled, only their number; body lines are the wrapped body.
cardContentLines(t, w) ==
    LET cardWidth == IF w - cardChrome < 1 THEN 1 ELSE w - cardChrome
        isGlobal == Len(TaskTags(t)) > 0 /\ TaskTags(t)[1] # TaskTitle(t)
        titleLines == IF isGlobal THEN << <<"P">>, <<"W">> >> ELSE << <<"T">> >>
        claimLines == IF TaskClaimedBy(t) # "" THEN << <<"C">> >> ELSE <<>>
        bodyLines == IF TaskBody(t) # <<>>
                     THEN wrapTitle(TaskBody(t), cardWidth, maxBodyLines)
                     ELSE <<>>
    IN  titleLines \o claimLines \o bodyLines

\* cardHeight for every task and column width, computed once
cardHeights ==
    [t \in TaskIds \cup EqualIds |->
        [w \in 0..maxColWidth |-> Len(cardContentLines(t, w)) + 2]]

cardHeight(t, w) == cardHeights[t][w]

----------------------------------------------------------------------------
(* The handlers are operators on a record b holding the Board's fields,    *)
(* the task files (b.files) and the history of the message being processed *)
(* (b.h); an action applies one handler to the current state.              *)

NoHistory ==
    [op |-> "none",        \* the handler branch that acted, if one did
     ev |-> "none",        \* how ensureVisible's loop ended: "visible", "exhausted"
     reload |-> "none",    \* loadTasks: "none" (not called), "ok", "failed"
     fail |-> "none",      \* the storage call that failed first, if any
     writes |-> {},        \* ids of the task files written
     activate |-> FALSE,   \* focusITermPane ran for a selected task
     sel |-> 0,            \* id under the cursor when yes was answered (0: none)
     hit |-> <<>>,         \* <<column, row>> of the latest card hit of the session,
                           \* kept from message to message (<<>>: none yet)
     loaded |-> <<>>,      \* the files as the latest successful read of loadTasks
                           \* found them, kept from message to message (<<>>:
                           \* nothing read yet)
     run |-> 0,            \* counted presses: the card hits in a row on one cell,
                           \* each less than 500 ms after the one before (4: more)
     fired |-> 0]          \* the hits of that run for which focusITermPane ran

columnWidth(b) ==
    IF b.width = 0 \/ Len(b.columns) = 0 THEN defaultColWidth
    ELSE Min(b.width \div Len(b.columns), maxColWidth)

\* nil is -1 here: the 0-based index of the current column, or -1
currentColumn(b) ==
    IF b.activeCol >= 0 /\ b.activeCol < Len(b.columns) THEN b.activeCol ELSE -1

\* the id of the selected task, or 0 for nil
selectedTask(b) ==
    LET c == currentColumn(b) IN
    IF c < 0 THEN 0
    ELSE IF Len(b.columns[c + 1].tasks) = 0 THEN 0
    ELSE IF b.activeRow >= 0 /\ b.activeRow < Len(b.columns[c + 1].tasks)
         THEN b.columns[c + 1].tasks[b.activeRow + 1]
         ELSE 0

chromeHeight(b) == boardChrome + (IF b.err # "nil" THEN errorChrome ELSE 0)

RECURSIVE fitLoop(_, _, _, _, _, _)
\* the loop of fitCardsInHeight from 0-based row i on
fitLoop(col, avail, w, i, used, count) ==
    IF i >= Len(col.tasks) THEN count
    ELSE With(cardHeight(col.tasks[i + 1], w), LAMBDA cardLines :
             IF count > 0 /\ used + cardLines > avail THEN count
             ELSE IF used + cardLines >= avail THEN count + 1
             ELSE fitLoop(col, avail, w, i + 1, used + cardLines, count + 1))

fitCardsInHeight(col, avail, w) ==
    IF Len(col.tasks) = 0 THEN 1
    ELSE IF avail < 1 THEN 1
    ELSE With(fitLoop(col, avail, w, col.scrollOff, 0, 0),
              LAMBDA count : IF count < 1 THEN 1 ELSE count)

\* visibleCardsForColumn reporting no card when the budget is below one line
visibleCardsZeroBudget(b, col, w) ==
    LET budget == b.height - chromeHeight(b) IN
    IF budget < 1 THEN 0
    ELSE LET avail == budget - 1 - (IF col.scrollOff > 0 THEN 1 ELSE 0) IN
         With(fitCardsInHeight(col, avail, w), LAMBDA n :
             IF col.scrollOff + n < Len(col.tasks)
             THEN With(fitCardsInHeight(col, avail - 1, w),
                       LAMBDA m : IF m < 1 THEN 1 ELSE m)
             ELSE n)

\* visibleCardsForColumn without the re-fit that reserves the down indicator
visibleCardsNoRefit(b, col, w) ==
    LET budget == b.height - chromeHeight(b) IN
    IF budget < 1 THEN 1
    ELSE LET avail == budget - 1 - (IF col.scrollOff > 0 THEN 1 ELSE 0)
         IN  fitCardsInHeight(col, avail, w)

visibleCardsForColumn(b, col, w) ==
    LET budget == b.height - chromeHeight(b) IN
    IF budget < 1 THEN 1
    ELSE LET avail == budget - 1 - (IF col.scrollOff > 0 THEN 1 ELSE 0) IN
         With(fitCardsInHeight(col, avail, w), LAMBDA n :
             IF col.scrollOff + n < Len(col.tasks)
             THEN With(fitCardsInHeight(col, avail - 1, w),
                       LAMBDA m : IF m < 1 THEN 1 ELSE m)
             ELSE n)

RECURSIVE ensureVisibleLoopRowOnTop(_, _, _)
\* the loop of ensureVisible scrolling down until the active row is the first
\* one shown
ensureVisibleLoopRowOnTop(b, w, left) ==
    IF left = 0 THEN [b EXCEPT !.h.ev = "exhausted"]
    ELSE LET c == b.activeCol + 1
             col == b.columns[c]
         IN  With(visibleCardsForColumn(b, col, w), LAMBDA maxVis :
             IF b.activeRow >= col.scrollOff + maxVis
             THEN ensureVisibleLoopRowOnTop(
                      [b EXCEPT !.columns[c].scrollOff = b.activeRow], w, left - 1)
             ELSE IF b.activeRow < col.scrollOff
             THEN ensureVisibleLoopRowOnTop(
                      [b EXCEPT !.columns[c].scrollOff = b.activeRow], w, left - 1)
             ELSE [b EXCEPT !.h.ev = "visible"])

RECURSIVE ensureVisibleLoop(_, _, _)
\* the loop of ensureVisible with left iterations to go
ensureVisibleLoop(b, w, left) ==
    IF left = 0 THEN [b EXCEPT !.h.ev = "exhausted"]
    ELSE LET c == b.activeCol + 1
             col == b.columns[c]
         IN  With(visibleCardsForColumn(b, col, w), LAMBDA maxVis :
             IF b.activeRow >= col.scrollOff + maxVis
             THEN ensureVisibleLoop(
                      [b EXCEPT !.columns[c].scrollOff = b.activeRow - maxVis + 1],
                      w, left - 1)
             ELSE IF b.activeRow < col.scrollOff
             THEN ensureVisibleLoop(
                      [b EXCEPT !.columns[c].scrollOff = b.activeRow], w, left - 1)
             ELSE [b EXCEPT !.h.ev = "visible"])

\* ensureVisible with one correction of the offset and one check of it
ensureVisibleOneCorrection(b) ==
    IF currentColumn(b) < 0 THEN b
    ELSE ensureVisibleLoop(b, columnWidth(b), 2)

ensureVisible(b) ==
    IF currentColumn(b) < 0 THEN b
    ELSE ensureVisibleLoop(b, columnWidth(b),
                           Len(b.columns[b.activeCol + 1].tasks) + 1)

\* renderColumn: the rows [start, end) it draws as cards, and the counts its
\* up and down indicators report (0: the indicator is not drawn)
renderColumn(b, col, w) ==
    With(visibleCardsForColumn(b, col, w), LAMBDA maxVis :
        LET end == Min(col.scrollOff + maxVis, Len(col.tasks))
            start == Min(col.scrollOff, Len(col.tasks))
        IN  [start |-> start,
             end |-> end,
             up |-> IF start > 0 THEN start ELSE 0,
             down |-> IF end < Len(col.tasks) THEN Len(col.tasks) - end ELSE 0])

\* clampRow sending a cursor past the end of its column to the first row
\* clampRow leaving the row where it is
clampRowKeeps(b) == b

clampRowToTop(b) ==
    LET c == currentColumn(b) IN
    IF c < 0 THEN [b EXCEPT !.activeRow = 0]
    ELSE IF Len(b.columns[c + 1].tasks) = 0 THEN [b EXCEPT !.activeRow = 0]
    ELSE ensureVisible(
             IF b.activeRow >= Len(b.columns[c + 1].tasks)
             THEN [b EXCEPT !.activeRow = 0]
             ELSE b)

clampRow(b) ==
    LET c == currentColumn(b) IN
    IF c < 0 THEN [b EXCEPT !.activeRow = 0]
    ELSE IF Len(b.columns[c + 1].tasks) = 0 THEN [b EXCEPT !.activeRow = 0]
    ELSE ensureVisible(
             IF b.activeRow >= Len(b.columns[c + 1].tasks)
             THEN [b EXCEPT !.activeRow = Len(b.columns[c + 1].tasks) - 1]
             ELSE b)

----------------------------------------------------------------------------
(* Reload.                                                                 *)

RECURSIVE ListingOf(_)
\* os.ReadDir lists the files by name, that is by id
ListingOf(ids) ==
    IF ids = {} THEN <<>>
    ELSE LET first == CHOOSE t \in ids : \A u \in ids : t <= u
         IN  <<first>> \o ListingOf(ids \ {first})

\* the listing of the task directory of TaskIds
Listing == [i \in 1..NumTasks |-> i]

\* the content of a file task.Read cannot parse
Malformed == "malformed"

\* task.ReadAllLenient on success: the files task.Read parses, in the order
\* of the listing; the others are skipped with a warning
ReadAllLenient(b) ==
    SelectSeq(ListingOf(DOMAIN b.files), LAMBDA t : b.files[t] # Malformed)

\* the less function board.Sort(tasks, "priority", true, cfg) hands to
\* sort.SliceStable: the negation of compareTasks
sortLess(a, c) == ~(PriorityIndex(TaskPriority(a)) < PriorityIndex(TaskPriority(c)))

RECURSIVE insertLeft(_, _)
\* for j := i; j > a && less(j, j-1); j-- { swap(j, j-1) }
insertLeft(data, j) ==
    IF j > 1 /\ sortLess(data[j], data[j - 1])
    THEN insertLeft([data EXCEPT ![j] = data[j - 1], ![j - 1] = data[j]], j - 1)
    ELSE data

RECURSIVE insertionSort(_, _)
\* sort.SliceStable on at most 20 elements is one insertion sort
insertionSort(data, i) ==
    IF i > Len(data) THEN data ELSE insertionSort(insertLeft(data, i), i + 1)

Sort(data) == insertionSort(data, 2)

RECURSIVE Flatten(_)
Flatten(cols) == IF cols = <<>> THEN <<>> ELSE Head(cols).tasks \o Flatten(Tail(cols))

\* sequence numbers for every column-assigned task, shared title or not
TitleSeqOfEveryTask(cols) ==
    LET flat == Flatten(cols)
        same(p) == {q \in 1..Len(flat) : TaskTitle(flat[q]) = TaskTitle(flat[p])}
    IN  [id \in {flat[p] : p \in 1..Len(flat)} |->
            LET p == CHOOSE q \in 1..Len(flat) : flat[q] = id
            IN  Cardinality({q \in same(p) : q <= p})]

\* the per-title sequence numbers of loadTasks, over the column-assigned tasks
TitleSeqOf(cols) ==
    LET flat == Flatten(cols)
        same(p) == {q \in 1..Len(flat) : TaskTitle(flat[q]) = TaskTitle(flat[p])}
        dup == {p \in 1..Len(flat) : Cardinality(same(p)) > 1}
    IN  [id \in {flat[p] : p \in dup} |->
            LET p == CHOOSE q \in dup : flat[q] = id
            IN  Cardinality({q \in same(p) : q <= p})]

\* loadTasks carrying each column's scroll offset over the reload
loadTasksKeepScroll(b, ok) ==
    IF ~ok THEN [b EXCEPT !.err = "reading tasks directory", !.h.reload = "failed"]
    ELSE LET visibleTasks ==
                 Sort(SelectSeq(ReadAllLenient(b),
                          LAMBDA t : ~IsArchivedStatus(b.cfgStatuses, b.files[t])))
             displayStatuses == BoardStatuses(b.cfgStatuses)
             cols == [i \in 1..Len(displayStatuses) |->
                         [status |-> displayStatuses[i],
                          tasks |-> SelectSeq(visibleTasks,
                                       LAMBDA t : b.files[t] = displayStatuses[i]),
                          scrollOff |-> IF i <= Len(b.columns)
                                        THEN b.columns[i].scrollOff ELSE 0]]
         IN  clampRow([b EXCEPT !.err = "nil",
                                !.h.reload = "ok",
                                !.h.loaded = b.files,
                                !.tasks = visibleTasks,
                                !.columns = cols,
                                !.titleSeq = TitleSeqOf(cols)])

\* loadTasks reading with task.ReadAll, which gives up at the first file it
\* cannot parse
loadTasksReadAll(b, ok) ==
    IF ~ok \/ (\E t \in TaskIds : b.files[t] = Malformed)
    THEN [b EXCEPT !.err = "reading tasks directory", !.h.reload = "failed"]
    ELSE LET visibleTasks ==
                 Sort(SelectSeq(ReadAllLenient(b),
                          LAMBDA t : ~IsArchivedStatus(b.cfgStatuses, b.files[t])))
             displayStatuses == BoardStatuses(b.cfgStatuses)
             cols == [i \in 1..Len(displayStatuses) |->
                         [status |-> displayStatuses[i],
                          tasks |-> SelectSeq(visibleTasks,
                                       LAMBDA t : b.files[t] = displayStatuses[i]),
                          scrollOff |-> 0]]
         IN  clampRow([b EXCEPT !.err = "nil",
                                !.h.reload = "ok",
                                !.h.loaded = b.files,
                                !.tasks = visibleTasks,
                                !.columns = cols,
                                !.titleSeq = TitleSeqOf(cols)])

\* loadTasks emptying the board when the read fails
loadTasksFailureEmpties(b, ok) ==
    IF ~ok THEN [b EXCEPT !.err = "reading tasks directory", !.h.reload = "failed",
                          !.tasks = <<>>, !.columns = <<>>]
    ELSE LET visibleTasks ==
                 Sort(SelectSeq(ReadAllLenient(b),
                          LAMBDA t : ~IsArchivedStatus(b.cfgStatuses, b.files[t])))
             displayStatuses == BoardStatuses(b.cfgStatuses)
             cols == [i \in 1..Len(displayStatuses) |->
                         [status |-> displayStatuses[i],
                          tasks |-> SelectSeq(visibleTasks,
                                       LAMBDA t : b.files[t] = displayStatuses[i]),
                          scrollOff |-> 0]]
         IN  clampRow([b EXCEPT !.err = "nil",
                                !.h.reload = "ok",
                                !.h.loaded = b.files,
                                !.tasks = visibleTasks,
                                !.columns = cols,
                                !.titleSeq = TitleSeqOf(cols)])

\* loadTasks; ok is whether task.ReadAllLenient succeeds
loadTasks(b, ok) ==
    IF ~ok THEN [b EXCEPT !.err = "reading tasks directory", !.h.reload = "failed"]
    ELSE LET visibleTasks ==
                 Sort(SelectSeq(ReadAllLenient(b),
                          LAMBDA t : ~IsArchivedStatus(b.cfgStatuses, b.files[t])))
             displayStatuses == BoardStatuses(b.cfgStatuses)
             cols == [i \in 1..Len(displayStatuses) |->
                         [status |-> displayStatuses[i],
                          tasks |-> SelectSeq(visibleTasks,
                                       LAMBDA t : b.files[t] = displayStatuses[i]),
                          scrollOff |-> 0]]
         IN  clampRow([b EXCEPT !.err = "nil",
                                !.h.reload = "ok",
                                !.h.loaded = b.files,
                                !.tasks = visibleTasks,
                                !.columns = cols,
                                !.titleSeq = TitleSeqOf(cols)])

----------------------------------------------------------------------------
(* Keys, confirmation dialogs and mutations.                               *)

focusITermPane(b) ==
    IF selectedTask(b) = 0 THEN b ELSE [b EXCEPT !.h.activate = TRUE]

\* handleDeleteStart capturing the first task of the active column
handleDeleteStartFirst(b) ==
    LET t == IF selectedTask(b) # 0 THEN b.columns[b.activeCol + 1].tasks[1] ELSE 0 IN
    IF t # 0
    THEN [b EXCEPT !.deleteID = t, !.deleteTitle = TaskTitle(t),
                   !.view = viewConfirmDelete, !.h.op = "deleteStart"]
    ELSE b

handleDeleteStart(b) ==
    LET t == selectedTask(b) IN
    IF t # 0
    THEN [b EXCEPT !.deleteID = t, !.deleteTitle = TaskTitle(t),
                   !.view = viewConfirmDelete, !.h.op = "deleteStart"]
    ELSE b

handleClearAllStart(b) ==
    LET b1 == [b EXCEPT !.clearAllCount = Len(b.tasks)] IN
    IF b1.clearAllCount > 0
    THEN [b1 EXCEPT !.view = viewConfirmClearAll, !.h.op = "clearAllStart"]
    ELSE b1

\* executeClearAll archiving the tasks the board lists instead of the tasks
\* the directory holds
executeClearAllListed(b, readOk, writeFail, loadOk) ==
    IF ~readOk
    THEN [b EXCEPT !.err = "reading tasks", !.view = viewBoard,
                   !.h.fail = "readall"]
    ELSE LET toWrite == {b.tasks[i] : i \in 1..Len(b.tasks)}
             b1 == [b EXCEPT
                      !.files = [t \in TaskIds |->
                                    IF t \in toWrite \ writeFail
                                    THEN ArchivedStatus ELSE b.files[t]],
                      !.h.writes = toWrite,
                      !.h.fail = IF toWrite \cap writeFail # {} THEN "write"
                                 ELSE "none",
                      !.view = viewBoard]
         IN  loadTasks(b1, loadOk)

\* executeClearAll; readOk is whether task.ReadAllLenient succeeds, writeFail
\* the files whose task.Write fails, loadOk the read of the final loadTasks
executeClearAll(b, readOk, writeFail, loadOk) ==
    IF ~readOk
    THEN [b EXCEPT !.err = "reading tasks", !.view = viewBoard,
                   !.h.fail = "readall"]
    ELSE LET toWrite == {t \in TaskIds : /\ b.files[t] # Malformed
                                          /\ ~IsArchivedStatus(b.cfgStatuses,
                                                                b.files[t])}
             b1 == [b EXCEPT
                      !.files = [t \in TaskIds |->
                                    IF t \in toWrite \ writeFail
                                    THEN ArchivedStatus ELSE b.files[t]],
                      !.h.writes = toWrite,
                      !.h.fail = IF toWrite \cap writeFail # {} THEN "write"
                                 ELSE "none",
                      !.view = viewBoard]
         IN  loadTasks(b1, loadOk)

\* executeDelete archiving the task under the cursor instead of b.deleteID
executeDeleteSelected(b, findOk, readOk, writeOk, loadOk) ==
    LET id == IF selectedTask(b) # 0 THEN selectedTask(b) ELSE b.deleteID IN
    IF ~findOk
    THEN [b EXCEPT !.err = "finding task", !.view = viewBoard, !.h.fail = "find"]
    ELSE IF ~readOk \/ b.files[b.deleteID] = Malformed
    THEN [b EXCEPT !.err = "reading task", !.view = viewBoard, !.h.fail = "read"]
    ELSE LET b1 == IF writeOk
                   THEN [b EXCEPT !.files[id] = ArchivedStatus,
                                  !.h.writes = {id}]
                   ELSE [b EXCEPT !.err = "archiving task",
                                  !.h.writes = {id},
                                  !.h.fail = "write"]
         IN  loadTasks([b1 EXCEPT !.view = viewBoard], loadOk)

\* executeDelete returning on a failed write as it does on a failed read
executeDeleteReturnOnWriteError(b, findOk, readOk, writeOk, loadOk) ==
    IF ~findOk
    THEN [b EXCEPT !.err = "finding task", !.view = viewBoard, !.h.fail = "find"]
    ELSE IF ~readOk \/ b.files[b.deleteID] = Malformed
    THEN [b EXCEPT !.err = "reading task", !.view = viewBoard, !.h.fail = "read"]
    ELSE IF ~writeOk
    THEN [b EXCEPT !.err = "archiving task", !.view = viewBoard,
                   !.h.writes = {b.deleteID}, !.h.fail = "write"]
    ELSE loadTasks([b EXCEPT !.files[b.deleteID] = ArchivedStatus,
                             !.h.writes = {b.deleteID},
                             !.view = viewBoard], loadOk)

\* executeDelete; findOk, readOk, writeOk are whether task.FindByID, task.Read
\* and task.Write succeed, loadOk the read of the final loadTasks
executeDelete(b, findOk, readOk, writeOk, loadOk) ==
    IF ~findOk
    THEN [b EXCEPT !.err = "finding task", !.view = viewBoard, !.h.fail = "find"]
    ELSE IF ~readOk \/ b.files[b.deleteID] = Malformed
    THEN [b EXCEPT !.err = "reading task", !.view = viewBoard, !.h.fail = "read"]
    ELSE LET b1 == IF writeOk
                   THEN [b EXCEPT !.files[b.deleteID] = ArchivedStatus,
                                  !.h.writes = {b.deleteID}]
                   ELSE [b EXCEPT !.err = "archiving task",
                                  !.h.writes = {b.deleteID},
                                  !.h.fail = "write"]
         IN  loadTasks([b1 EXCEPT !.view = viewBoard], loadOk)


\* What the storage calls of one message do: o.find, o.read, o.write, o.load
\* are whether FindByID, Read / ReadAllLenient, Write and the read of the
\* final loadTasks succeed; o.writeFail are the files whose Write fails in
\* executeClearAll.
NoFault ==
    [find |-> TRUE, read |-> TRUE, write |-> TRUE, load |-> TRUE, writeFail |-> {}]

\* the outcomes executeDelete tells apart
DeleteOutcomes ==
    {[NoFault EXCEPT !.find = FALSE], [NoFault EXCEPT !.read = FALSE]}
    \cup {[NoFault EXCEPT !.write = w, !.load = l] : w \in BOOLEAN, l \in BOOLEAN}

\* the outcomes executeClearAll tells apart
ClearAllOutcomes ==
    {[NoFault EXCEPT !.read = FALSE]}
    \cup {[NoFault EXCEPT !.writeFail = f, !.load = l] :
              f \in SUBSET TaskIds, l \in BOOLEAN}

handleBoardKey(b, key) ==
    IF key \in {"q", keyEsc}
    THEN [b EXCEPT !.running = "quit", !.h.op = "quit"]
    ELSE IF key \in {"h", "left"}
    THEN IF b.activeCol > 0
         THEN clampRow([b EXCEPT !.activeCol = b.activeCol - 1, !.h.op = "left"])
         ELSE b
    ELSE IF key \in {"l", "right"}
    THEN IF b.activeCol < Len(b.columns) - 1
         THEN clampRow([b EXCEPT !.activeCol = b.activeCol + 1, !.h.op = "right"])
         ELSE b
    ELSE IF key \in {"j", "down"}
    THEN IF currentColumn(b) >= 0
            /\ b.activeRow < Len(b.columns[b.activeCol + 1].tasks) - 1
         THEN ensureVisible([b EXCEPT !.activeRow = b.activeRow + 1, !.h.op = "down"])
         ELSE b
    ELSE IF key \in {"k", "up"}
    THEN IF b.activeRow > 0
         THEN ensureVisible([b EXCEPT !.activeRow = b.activeRow - 1, !.h.op = "up"])
         ELSE b
    ELSE IF key = "C"
    THEN handleClearAllStart(b)
    ELSE IF key \in {"d", "D"}
    THEN handleDeleteStart(b)
    ELSE IF key = "enter"
    THEN focusITermPane(b)
    ELSE b

\* handleDeleteKey reloading the board when the dialog is cancelled
handleDeleteKeyCancelReloads(b, key, o) ==
    IF key \in {"y", "Y"}
    THEN executeDelete([b EXCEPT !.h.op = "deleteYes", !.h.sel = selectedTask(b)],
                       o.find, o.read, o.write, o.load)
    ELSE IF key \in {"n", "N", keyEsc, "q"}
    THEN loadTasks([b EXCEPT !.view = viewBoard, !.h.op = "deleteCancel"], TRUE)
    ELSE b

\* handleDeleteKey handing the keys it does not know to the board
handleDeleteKeyFallThrough(b, key, o) ==
    IF key \in {"y", "Y"}
    THEN executeDelete([b EXCEPT !.h.op = "deleteYes", !.h.sel = selectedTask(b)],
                       o.find, o.read, o.write, o.load)
    ELSE IF key \in {"n", "N", keyEsc, "q"}
    THEN [b EXCEPT !.view = viewBoard, !.h.op = "deleteCancel"]
    ELSE handleBoardKey(b, key)

handleDeleteKey(b, key, o) ==
    IF key \in {"y", "Y"}
    THEN executeDelete([b EXCEPT !.h.op = "deleteYes", !.h.sel = selectedTask(b)],
                       o.find, o.read, o.write, o.load)
    ELSE IF key \in {"n", "N", keyEsc, "q"}
    THEN [b EXCEPT !.view = viewBoard, !.h.op = "deleteCancel"]
    ELSE b

handleClearAllKey(b, key, o) ==
    IF key \in {"y", "Y"}
    THEN executeClearAll([b EXCEPT !.h.op = "clearYes"], o.read, o.writeFail, o.load)
    ELSE IF key \in {"n", "N", keyEsc, "q"}
    THEN [b EXCEPT !.view = viewBoard, !.h.op = "clearCancel"]
    ELSE b

\* handleKey dispatching by view only, ctrl+c being one more key of the view
handleKeyByViewOnly(b, key, o) ==
    IF b.view = viewBoard THEN handleBoardKey(b, key)
    ELSE IF b.view = viewConfirmDelete THEN handleDeleteKey(b, key, o)
    ELSE handleClearAllKey(b, key, o)

handleKey(b, key, o) ==
    IF key = "ctrl+c" THEN [b EXCEPT !.running = "quit", !.h.op = "ctrl+c"]
    ELSE IF b.view = viewBoard THEN handleBoardKey(b, key)
    ELSE IF b.view = viewConfirmDelete THEN handleDeleteKey(b, key, o)
    ELSE handleClearAllKey(b, key, o)

----------------------------------------------------------------------------
(* Mouse.                                                                  *)

RECURSIVE clickedRowFrom(_, _, _, _, _)
\* the card walk of handleMouse from 0-based row rowIdx on; -1: no card hit
clickedRowFrom(b, col, lineY, rowIdx, cardLine) ==
    IF rowIdx >= Len(col.tasks) THEN -1
    ELSE LET cardH == cardHeight(col.tasks[rowIdx + 1], columnWidth(b)) IN
         IF lineY < cardLine + cardH THEN rowIdx
         ELSE clickedRowFrom(b, col, lineY, rowIdx + 1, cardLine + cardH)

\* the double-click test counting a click exactly 500 ms after the last one
isDoubleClickUpTo(b, clickedCol, clickedRow) ==
    /\ clickedCol = b.lastClickCol
    /\ clickedRow = b.lastClickRow
    /\ b.sinceClick <= doubleClickUnits

\* the double-click test of handleMouse: the same card within 500 ms
isDoubleClick(b, clickedCol, clickedRow) ==
    /\ clickedCol = b.lastClickCol
    /\ clickedRow = b.lastClickRow
    /\ b.sinceClick < doubleClickUnits

\* handleMouse forgetting the clicked cell once a double click has fired
handleMouseResetsPair(b0, pressLeft, x, y) ==
    LET b == b0 IN
    IF ~pressLeft THEN b
    ELSE IF b.view # viewBoard THEN b
    ELSE IF columnWidth(b) = 0
    THEN [b EXCEPT !.running = "panic"]
    ELSE LET clickedCol == x \div columnWidth(b) IN
         IF clickedCol >= Len(b.columns) THEN b
         ELSE LET col == b.columns[clickedCol + 1]
                  lineY == y - 1
                  clickedRow == clickedRowFrom(b, col, lineY, col.scrollOff, 0)
              IN  IF lineY < 0 \/ clickedRow < 0
                  THEN clampRow([b EXCEPT !.activeCol = clickedCol,
                                          !.h.op = "columnHit"])
                  ELSE LET b1 == ensureVisible(
                                     [b EXCEPT !.activeCol = clickedCol,
                                               !.activeRow = clickedRow,
                                               !.lastClickCol = clickedCol,
                                               !.lastClickRow = clickedRow,
                                               !.sinceClick = 0,
                                               !.h.hit = <<clickedCol, clickedRow>>,
                                               !.h.op = "cardHit"])
                       IN  IF isDoubleClick(b, clickedCol, clickedRow)
                           THEN focusITermPane([b1 EXCEPT !.lastClickRow = -1])
                           ELSE b1

\* handleMouse; pressLeft is whether the event is a left-button press
handleMouse(b0, pressLeft, x, y) ==
    LET b == b0 IN
    IF ~pressLeft THEN b
    ELSE IF b.view # viewBoard THEN b
    ELSE IF columnWidth(b) = 0
    THEN [b EXCEPT !.running = "panic"]   \* msg.X / colWidth: division by zero
    ELSE LET clickedCol == x \div columnWidth(b) IN
         IF clickedCol >= Len(b.columns) THEN b
         ELSE LET col == b.columns[clickedCol + 1]
                  lineY == y - 1
                  clickedRow == clickedRowFrom(b, col, lineY, col.scrollOff, 0)
              IN  IF lineY < 0 \/ clickedRow < 0
                  THEN clampRow([b EXCEPT !.activeCol = clickedCol,
                                          !.h.op = "columnHit"])
                  ELSE LET b1 == ensureVisible(
                                     [b EXCEPT !.activeCol = clickedCol,
                                               !.activeRow = clickedRow,
                                               !.lastClickCol = clickedCol,
                                               !.lastClickRow = clickedRow,
                                               !.sinceClick = 0,
                                               !.h.hit = <<clickedCol, clickedRow>>,
                                               !.h.op = "cardHit"])
                       IN  IF isDoubleClick(b, clickedCol, clickedRow)
                           THEN focusITermPane(b1)
                           ELSE b1

----------------------------------------------------------------------------
(* The watcher (package watcher) as startTUIWatcher runs it: Run in its    *)
(* own goroutine, the time.AfterFunc timer of debounce, the goroutine a    *)
(* fired timer starts for the callback, and the callback's p.Send. Time is *)
(* counted in units of 50 ms.                                              *)

\* the operations Run reacts to: Create, Write, Remove, Rename
Meaningful == {"create", "write", "remove", "rename"}

\* watcher.New, with what the session has seen of it so far
NewWatcher ==
    [ctx |-> "active",        \* the context of runTUI: "active", "cancelled"
     run |-> "running",       \* Run: "running", "returned"
     events |-> <<>>,         \* fsw.Events: the operations sent and not yet received
     timer |-> "nil",         \* w.timer: "nil", "armed", "fired" or "stopped"
     left |-> 0,              \* units until the armed timer is due
     started |-> 0,           \* goroutines fired timers started, callback not yet run
     pending |-> 0,           \* ReloadMsgs sent and not yet processed by Update
     arrived |-> 0,           \* file events delivered so far
     seen |-> FALSE,          \* a meaningful event has arrived
     sinceArrival |-> debounceDelay, \* units since the latest meaningful event
                              \* arrived, saturated at debounceDelay
     sinceDebounce |-> debounceDelay, \* units since the latest call of debounce,
                              \* saturated at debounceDelay
     oneBurst |-> TRUE,       \* every meaningful event so far arrived less than
                              \* debounceDelay after the one before it
     oneRun |-> TRUE,         \* every call of debounce so far came less than
                              \* debounceDelay after the one before it
     debounces |-> 0,         \* calls of debounce so far
     callbacks |-> 0,         \* invocations of the callback so far
     early |-> FALSE,         \* a callback ran before an event that continued the burst
     earlyRun |-> FALSE,      \* a callback ran before a debounce less than
                              \* debounceDelay after the debounce before it
     afterReturn |-> FALSE]   \* a callback ran after Run had returned

\* a file event is delivered on fsw.Events
deliver(w, op) ==
    IF op \notin Meaningful
    THEN [w EXCEPT !.events = Append(w.events, op), !.arrived = w.arrived + 1]
    ELSE [w EXCEPT !.events = Append(w.events, op),
                   !.arrived = w.arrived + 1,
                   !.sinceArrival = 0,
                   !.seen = TRUE,
                   !.oneBurst = w.oneBurst /\ (w.sinceArrival < debounceDelay
                                                 \/ ~w.seen),
                   !.early = w.early \/ (w.sinceArrival < debounceDelay
                                            /\ w.callbacks > 0)]

\* debounce leaving a running timer alone
debounceLeadingEdge(w) ==
    LET w1 == [w EXCEPT !.sinceDebounce = 0,
                        !.debounces = w.debounces + 1,
                        !.oneRun = w.oneRun /\ (w.sinceDebounce < debounceDelay
                                                  \/ w.timer = "nil"),
                        !.earlyRun = w.earlyRun \/ (w.sinceDebounce < debounceDelay
                                                      /\ w.callbacks > 0)]
    IN  IF w.timer = "armed" THEN w1
        ELSE [w1 EXCEPT !.timer = "armed", !.left = debounceDelay]

\* debounce: under the mutex, stop the timer if there is one; a new timer
\* replaces it. Stop on a timer that has fired changes nothing.
debounce(w) ==
    [w EXCEPT !.timer = "armed",
              !.left = debounceDelay,
              !.sinceDebounce = 0,
              !.debounces = w.debounces + 1,
              !.oneRun = w.oneRun /\ (w.sinceDebounce < debounceDelay
                                        \/ w.timer = "nil"),
              !.earlyRun = w.earlyRun \/ (w.sinceDebounce < debounceDelay
                                            /\ w.callbacks > 0)]

\* Run, case event := <-w.fsw.Events
runEvent(w) ==
    LET w1 == [w EXCEPT !.events = Tail(w.events)] IN
    IF Head(w.events) \in Meaningful THEN debounce(w1) ELSE w1

\* Run, case <-ctx.Done()
runDone(w) ==
    [w EXCEPT !.timer = IF w.timer = "armed" THEN "stopped" ELSE w.timer,
              !.run = "returned"]

\* the runtime finds the timer due and starts the callback in a goroutine
timerFires(w) == [w EXCEPT !.timer = "fired", !.started = w.started + 1]

\* a callback that sends no message
callbackSendsNothing(w, programRunning) ==
    [w EXCEPT !.started = w.started - 1,
              !.callbacks = w.callbacks + 1,
              !.afterReturn = w.afterReturn \/ w.run = "returned"]

\* the goroutine runs the callback: p.Send(tui.ReloadMsg{}), which a
\* finished program drops
callback(w, programRunning) ==
    [w EXCEPT !.started = w.started - 1,
              !.callbacks = w.callbacks + 1,
              !.pending = IF programRunning THEN w.pending + 1 ELSE w.pending,
              !.afterReturn = w.afterReturn \/ w.run = "returned"]

\* one unit of time passes
passTime(w) ==
    [w EXCEPT !.left = IF w.timer = "armed" /\ w.left > 0 THEN w.left - 1 ELSE w.left,
              !.sinceArrival = Min(w.sinceArrival + 1, debounceDelay),
              !.sinceDebounce = Min(w.sinceDebounce + 1, debounceDelay)]

----------------------------------------------------------------------------
(* Update: one action per message type. The sets an action draws its       *)
(* inputs from are its parameters.                                         *)

\* every key a handler tells apart, and "x" for all the others
Keys == {"ctrl+c", "q", keyEsc, "h", "left", "l", "right", "j", "down", "k",
         "up", "C", "d", "D", "enter", "y", "Y", "n", "N", "x"}

\* the arrow keys share their case with h, l, j, k
LetterKeys == Keys \ {"left", "right", "down", "up"}

\* the current state as a handler's argument
Cur ==
    [cfgStatuses |-> cfgStatuses, files |-> files, tasks |-> tasks,
     columns |-> columns, activeCol |-> activeCol, activeRow |-> activeRow,
     view |-> view, width |-> width, height |-> height, err |-> err,
     deleteID |-> deleteID, deleteTitle |-> deleteTitle,
     clearAllCount |-> clearAllCount, lastClickCol |-> lastClickCol,
     lastClickRow |-> lastClickRow, sinceClick |-> sinceClick,
     titleSeq |-> titleSeq, running |-> running, watcher |-> watcher,
     call |-> call, ticks |-> ticks, creates |-> creates, archive |-> archive,
     h |-> [NoHistory EXCEPT !.hit = last.hit, !.loaded = last.loaded,
                             !.run = last.run, !.fired = last.fired]]

\* the state b, as a predicate on the current state
Is(b) ==
    /\ cfgStatuses = b.cfgStatuses
    /\ files = b.files
    /\ tasks = b.tasks
    /\ columns = b.columns
    /\ activeCol = b.activeCol
    /\ activeRow = b.activeRow
    /\ view = b.view
    /\ width = b.width
    /\ height = b.height
    /\ err = b.err
    /\ deleteID = b.deleteID
    /\ deleteTitle = b.deleteTitle
    /\ clearAllCount = b.clearAllCount
    /\ lastClickCol = b.lastClickCol
    /\ lastClickRow = b.lastClickRow
    /\ sinceClick = b.sinceClick
    /\ titleSeq = b.titleSeq
    /\ running = b.running
    /\ watcher = b.watcher
    /\ call = b.call
    /\ ticks = b.ticks
    /\ creates = b.creates
    /\ archive = b.archive
    /\ last = b.h

\* the state a handler returns becomes the next state
Becomes(b) ==
    /\ cfgStatuses' = b.cfgStatuses
    /\ files' = b.files
    /\ tasks' = b.tasks
    /\ columns' = b.columns
    /\ activeCol' = b.activeCol
    /\ activeRow' = b.activeRow
    /\ view' = b.view
    /\ width' = b.width
    /\ height' = b.height
    /\ err' = b.err
    /\ deleteID' = b.deleteID
    /\ deleteTitle' = b.deleteTitle
    /\ clearAllCount' = b.clearAllCount
    /\ lastClickCol' = b.lastClickCol
    /\ lastClickRow' = b.lastClickRow
    /\ sinceClick' = b.sinceClick
    /\ titleSeq' = b.titleSeq
    /\ running' = b.running
    /\ watcher' = b.watcher
    /\ call' = b.call
    /\ ticks' = b.ticks
    /\ creates' = b.creates
    /\ archive' = b.archive
    /\ last' = b.h

\* NewBoard before its loadTasks
NewBoard(cfg, fs) ==
    [cfgStatuses |-> cfg, files |-> fs, tasks |-> <<>>, columns |-> <<>>,
     activeCol |-> 0, activeRow |-> 0, view |-> viewBoard, width |-> 0,
     height |-> 0, err |-> "nil", deleteID |-> 0, deleteTitle |-> "",
     clearAllCount |-> 0, lastClickCol |-> 0, lastClickRow |-> 0,
     sinceClick |-> MaxSince, titleSeq |-> <<>>, running |-> "running",
     watcher |-> NewWatcher, call |-> NoCall, ticks |-> BoardInit,
     creates |-> NoCreates, archive |-> NothingArchiving,
     h |-> [NoHistory EXCEPT !.op = "NewBoard"]]

\* the states after NewBoard, over the configurations cfgs and the task
\* directories whose files carry statuses of sts
InitOver(cfgs, sts) ==
    \E cfg \in cfgs :
        \E fs \in [TaskIds -> sts], ok \in BOOLEAN :
            Is(loadTasks(NewBoard(cfg, fs), ok))

\* Update(tea.KeyMsg)
KeyMsg(keys) ==
    /\ running = "running"
    /\ \E key \in keys :
           \E o \in IF key \in {"y", "Y"} /\ view = viewConfirmDelete
                    THEN DeleteOutcomes
                    ELSE IF key \in {"y", "Y"} /\ view = viewConfirmClearAll
                    THEN ClearAllOutcomes
                    ELSE {NoFault} :
               Becomes(handleKey(Cur, key, o))

\* Update(tea.MouseMsg): a left-button press at the left edge of a column
\* (or right of the last one) on a line of the terminal, or another event
MouseMsg ==
    /\ running = "running"
    /\ \E pressLeft \in BOOLEAN :
           \E x \in IF pressLeft
                    THEN {c * columnWidth(Cur) : c \in 0..Len(columns)}
                    ELSE {0},
              y \in IF pressLeft THEN 0..Max(height - 1, 0) ELSE {0} :
               Becomes(handleMouse(Cur, pressLeft, x, y))

\* Update(tea.WindowSizeMsg)
WindowSizeMsg(ws, hs) ==
    /\ running = "running"
    /\ \E w \in ws, ht \in hs :
           Becomes([Cur EXCEPT !.width = w, !.height = ht, !.h.op = "resize"])

\* Update(ReloadMsg)
Reload ==
    /\ running = "running"
    /\ \E ok \in BOOLEAN : Becomes(loadTasks([Cur EXCEPT !.h.op = "reload"], ok))

\* a tea.Tick timer fires after tickInterval and sends its TickMsg
TickFires ==
    /\ running = "running"
    /\ ticks.timers > 0
    /\ Becomes([Cur EXCEPT !.ticks.timers = ticks.timers - 1,
                            !.ticks.queued = ticks.queued + 1])

\* Update(TickMsg) reloading the board before it schedules the next tick
TickReloads ==
    /\ running = "running"
    /\ ticks.queued > 0
    /\ ticks.timers < MaxTicks
    /\ Becomes(loadTasks([Cur EXCEPT !.ticks.queued = ticks.queued - 1,
                                     !.ticks.timers = ticks.timers + 1,
                                     !.h.op = "tick"], TRUE))

\* Update(TickMsg): the board is returned as it is, with a new tickCmd
Tick ==
    /\ running = "running"
    /\ ticks.queued > 0
    /\ ticks.timers < MaxTicks
    /\ Becomes([Cur EXCEPT !.ticks.queued = ticks.queued - 1,
                            !.ticks.timers = ticks.timers + 1,
                            !.h.op = "tick"])

\* Update(errMsg)
ErrMsg ==
    /\ running = "running"
    /\ Becomes([Cur EXCEPT !.err = "errMsg", !.h.op = "errMsg"])

\* another process (an agent hook, the CLI) rewrites a task file
External ==
    /\ running = "running"
    /\ \E t \in TaskIds, st \in FileStatuses(cfgStatuses) :
           /\ files[t] # st
           /\ Becomes([Cur EXCEPT !.files[t] = st])

\* a status no column and no configuration names
OtherStatus == "other"

\* a task file is left unparseable (a half-written or hand-edited file), or
\* with a status the configuration does not list
Damage ==
    /\ running = "running"
    /\ \E t \in TaskIds, st \in {Malformed, OtherStatus} :
           /\ files[t] # st
           /\ Becomes([Cur EXCEPT !.files[t] = st])

\* time passes between two messages
Advance ==
    /\ running = "running"
    /\ sinceClick < MaxSince
    /\ Becomes([Cur EXCEPT !.sinceClick = sinceClick + 1, !.h.op = "advance"])

\* a process changes a task file, or touches one, and the watched directory
\* reports the operation
FileEventOn(ids) ==
    /\ watcher.arrived < MaxEvents
    /\ \/ \E t \in ids, st \in FileStatuses(cfgStatuses) :
              /\ files[t] # st
              /\ Becomes([Cur EXCEPT !.files[t] = st,
                                      !.watcher = deliver(watcher, "write")])
       \/ Becomes([Cur EXCEPT !.watcher = deliver(watcher, "chmod")])

FileEvent == FileEventOn(TaskIds)

\* Run receives a file event
RunEvent ==
    /\ watcher.run = "running"
    /\ watcher.events # <<>>
    /\ Becomes([Cur EXCEPT !.watcher = runEvent(watcher)])

\* runTUI returns once the program has ended; its deferred cancel runs
Cancel ==
    /\ running # "running"
    /\ watcher.ctx = "active"
    /\ Becomes([Cur EXCEPT !.watcher.ctx = "cancelled"])

\* Run finds its context cancelled
RunDone ==
    /\ watcher.run = "running"
    /\ watcher.ctx = "cancelled"
    /\ Becomes([Cur EXCEPT !.watcher = runDone(watcher)])

\* the debounce timer fires, at its time or later
TimerFires ==
    /\ watcher.timer = "armed"
    /\ watcher.left = 0
    /\ Becomes([Cur EXCEPT !.watcher = timerFires(watcher)])

\* the goroutine of a fired timer reloads the board itself
CallbackLoadsTasks ==
    /\ watcher.started > 0
    /\ Becomes(loadTasks([Cur EXCEPT !.watcher = callback(watcher, FALSE)], TRUE))

\* the goroutine of a fired timer runs the callback
Callback ==
    /\ watcher.started > 0
    /\ Becomes([Cur EXCEPT !.watcher = callback(watcher, running = "running")])

\* 50 ms pass
PassTime ==
    /\ passTime(watcher) # watcher
    /\ Becomes([Cur EXCEPT !.watcher = passTime(watcher)])

\* Update(ReloadMsg) for a message the watcher's callback sent
WatcherReload ==
    /\ running = "running"
    /\ watcher.pending > 0
    /\ \E ok \in BOOLEAN :
           Becomes(loadTasks([Cur EXCEPT !.watcher.pending = watcher.pending - 1,
                                         !.h.op = "reload"], ok))

----------------------------------------------------------------------------
(* The board with its dialogs: one column, every key, the storage calls in *)
(* all their outcomes, reloads, writes by other processes, and a terminal  *)
(* that is either not yet sized or MaxWidth x MaxHeight.                   *)

Init == InitOver({OneColumn}, FileStatuses(OneColumn))

Next ==
    \/ KeyMsg(LetterKeys)
    \/ WindowSizeMsg({MaxWidth}, {MaxHeight})
    \/ Reload
    \/ External

Spec == Init /\ [][Next]_vars

----------------------------------------------------------------------------
(* The board as a scrolling layout: two columns holding every task,        *)
(* navigation keys, the mouse, terminals of every height, unsized or       *)
(* MaxWidth wide, and reloads in both outcomes, a failed one leaving the   *)
(* error banner. No task file changes; no command of the program sends an  *)
(* errMsg.                                                                 *)

NavKeys == {"h", "l", "j", "k", "enter", "x"}

InitLayout == InitOver({TwoColumns}, {"todo", "doing"})

NextLayout ==
    \/ KeyMsg(NavKeys)
    \/ MouseMsg
    \/ WindowSizeMsg({0, MaxWidth}, 0..MaxHeight)
    \/ Reload

SpecLayout == InitLayout /\ [][NextLayout]_vars

----------------------------------------------------------------------------
(* Properties of the layout.                                               *)

\* the active column, when there is one
ActiveColumn == columns[activeCol + 1]

HasActiveTasks ==
    /\ currentColumn(Cur) >= 0
    /\ Len(ActiveColumn.tasks) > 0

\* the active row lies in the window the active column shows
ActiveRowVisible ==
    /\ ActiveColumn.scrollOff <= activeRow
    /\ activeRow < ActiveColumn.scrollOff
                   + visibleCardsForColumn(Cur, ActiveColumn, columnWidth(Cur))

\* the board with column c (1-based) active, scrolled to off, cursor on row
BoardAt(c, off, row) ==
    [Cur EXCEPT !.activeCol = c - 1, !.activeRow = row, !.columns[c].scrollOff = off]

\* C1: every call of ensureVisible on a non-empty active column ends in the
\* "already visible" branch, never by running out of its len(tasks)+1
\* iterations, and leaves scrollOff <= activeRow < scrollOff + visible cards:
\* for the call the last message made, and for a call on any column of the
\* board from any scroll offset and any row of that column.
C1_EnsureVisibleFixedPoint ==
    /\ (last.ev # "none" /\ HasActiveTasks) =>
           (last.ev = "visible" /\ ActiveRowVisible)
    /\ \A c \in 1..Len(columns) :
           \A off \in 0..(Len(columns[c].tasks) - 1),
              row \in 0..(Len(columns[c].tasks) - 1) :
               LET r == ensureVisible(BoardAt(c, off, row))
                   col == r.columns[c]
               IN  /\ r.h.ev = "visible"
                   /\ col.scrollOff <= row
                   /\ row < col.scrollOff
                            + visibleCardsForColumn(r, col, columnWidth(r))

\* a key moved the cursor down a column of three cards and ensureVisible
\* scrolled the column to show it
C1_Witness ==
    /\ last.op = "down"
    /\ last.ev = "visible"
    /\ HasActiveTasks
    /\ Len(ActiveColumn.tasks) = 3
    /\ activeRow = 2
    /\ ActiveColumn.scrollOff > 0
    /\ height - chromeHeight(Cur) >= 1

\* C3: visibleCardsForColumn is at least 1 for every non-empty column of the
\* board at every scroll offset, whatever the terminal size and the error
\* banner of the state.
C3_VisibleAtLeastOne ==
    \A c \in 1..Len(columns) :
        \A off \in 0..(Len(columns[c].tasks) - 1) :
            visibleCardsForColumn(Cur, [columns[c] EXCEPT !.scrollOff = off],
                                  columnWidth(Cur)) >= 1

\* the budget is at least 1, the first shown card alone is taller than it and
\* cards remain below, so that the count comes from the re-fit
C3_Witness ==
    /\ HasActiveTasks
    /\ last.ev = "visible"
    /\ height - chromeHeight(Cur) >= 1
    /\ ActiveColumn.scrollOff + 1 < Len(ActiveColumn.tasks)
    /\ cardHeight(ActiveColumn.tasks[ActiveColumn.scrollOff + 1], columnWidth(Cur))
           > height - chromeHeight(Cur)

RECURSIVE SumHeights(_, _, _, _)
\* the heights of the n cards of col from 0-based row s on
SumHeights(col, s, n, w) ==
    IF n = 0 THEN 0
    ELSE cardHeight(col.tasks[s + 1], w) + SumHeights(col, s + 1, n - 1, w)

\* the lines renderColumn draws for col when n cards are visible
RenderedLines(col, n, w) ==
    1 + (IF col.scrollOff > 0 THEN 1 ELSE 0)
      + SumHeights(col, col.scrollOff, n, w)
      + (IF col.scrollOff + n < Len(col.tasks) THEN 1 ELSE 0)

\* C4: when visibleCardsForColumn reports n >= 2 cards for a column at a
\* scroll offset, header + up indicator + the n cards + down indicator fit
\* in terminalHeight - chromeHeight.
C4_WindowFitsBudget ==
    \A c \in 1..Len(columns) :
        \A off \in 0..(Len(columns[c].tasks) - 1) :
            LET col == [columns[c] EXCEPT !.scrollOff = off]
                n == visibleCardsForColumn(Cur, col, columnWidth(Cur))
            IN  n >= 2 =>
                    RenderedLines(col, n, columnWidth(Cur))
                        <= height - chromeHeight(Cur)

\* two cards are shown, a third is below them, and the window with its down
\* indicator fills the budget exactly
C4_Witness ==
    /\ HasActiveTasks
    /\ Len(ActiveColumn.tasks) = 3
    /\ ActiveColumn.scrollOff = 0
    /\ visibleCardsForColumn(Cur, ActiveColumn, columnWidth(Cur)) = 2
    /\ RenderedLines(ActiveColumn, 2, columnWidth(Cur)) = height - chromeHeight(Cur)

----------------------------------------------------------------------------
(* Properties of the scroll state, the dialogs and the mutations.          *)

KeyStep(key, o) == running = "running" /\ Becomes(handleKey(Cur, key, o))

\* the message of this step is a yes in a dialog
AnsweredYes == last.op \in {"deleteYes", "clearYes"}

\* C5: a yes in ConfirmDelete whose storage calls succeed archives exactly
\* the task whose id the dialog holds, whatever task the cursor is on by
\* then, writes no other file and returns the view to Normal; the id the
\* dialog holds does not change while the dialog stays open.
C5_DeleteArchivesCaptured ==
    [][ /\ (last'.op = "deleteYes" /\ last'.fail = "none") =>
               /\ files' = [files EXCEPT ![deleteID] = ArchivedStatus]
               /\ last'.writes = {deleteID}
               /\ view' = viewBoard
        /\ (view = viewConfirmDelete /\ view' = viewConfirmDelete) =>
               (deleteID' = deleteID /\ deleteTitle' = deleteTitle)
      ]_vars

\* the delete was confirmed with the cursor on another, still listed task
\* than the captured one; the captured one is archived, the other is not
C5_Witness ==
    /\ last.op = "deleteYes"
    /\ last.fail = "none"
    /\ last.sel # 0
    /\ last.sel # deleteID
    /\ files[deleteID] = ArchivedStatus
    /\ files[last.sel] # ArchivedStatus
    /\ view = viewBoard

\* C6 as stated: every yes in ConfirmDelete or ConfirmClearAll is followed,
\* within the same message, by a reload, in every outcome of the storage
\* calls.
C6_ReloadInEveryOutcome == AnsweredYes => last.reload # "none"

\* the reload replaced tasks and columns by what storage holds
ReloadedFromStorage ==
    /\ \A c \in 1..Len(columns) :
           \A t \in TaskIds :
               (\E i \in 1..Len(columns[c].tasks) : columns[c].tasks[i] = t)
                   <=> files[t] = columns[c].status
    /\ \A t \in TaskIds :
           (\E i \in 1..Len(tasks) : tasks[i] = t)
               <=> ~IsArchivedStatus(cfgStatuses, files[t])

\* C6: a yes in ConfirmDelete or ConfirmClearAll whose lookup and read
\* succeed (FindByID and Read, ReadAllLenient) is followed within the same
\* message by loadTasks, whether or not the writes succeed, and a loadTasks
\* that can read the directory replaces tasks and columns from storage;
\* when the lookup or the read fails there is no write and no reload.
C6_ReloadAfterMutation ==
    /\ (AnsweredYes /\ last.fail \in {"none", "write"}) => last.reload # "none"
    /\ (AnsweredYes /\ last.reload = "ok") => ReloadedFromStorage
    /\ (AnsweredYes /\ last.fail \in {"find", "read", "readall"}) =>
           (last.reload = "none" /\ last.writes = {})

\* a yes whose write failed was still followed by a reload
C6_Witness ==
    /\ AnsweredYes
    /\ last.fail = "write"
    /\ last.reload = "ok"

\* the error executeDelete records for a failed storage call
DeleteError(f) ==
    CASE f = "find" -> "finding task"
      [] f = "read" -> "reading task"
      [] f = "write" -> "archiving task"

\* C7: after a yes in ConfirmDelete with a failed storage call (FindByID,
\* Read or Write; the directory read of a following reload succeeding) the
\* view is Normal, the event loop keeps running and the failure is the
\* board's current error.
C7_DeleteFailureIsCurrentError ==
    (last.op = "deleteYes" /\ last.fail # "none" /\ last.reload # "failed") =>
        /\ view = viewBoard
        /\ running = "running"
        /\ err = DeleteError(last.fail)

C9_CancelChangesNothing ==
    [][ \A key \in {"n", "N", keyEsc, "q"} :
            (view \in {viewConfirmDelete, viewConfirmClearAll}
             /\ KeyStep(key, NoFault)) =>
                /\ view' = viewBoard
                /\ last'.writes = {}
                /\ UNCHANGED <<files, tasks, columns, activeCol, activeRow>>
      ]_vars

\* a delete dialog was cancelled while storage held another task list than
\* the board, with the cursor on a scrolled column
C9_Witness ==
    /\ last.op = "deleteCancel"
    /\ view = viewBoard
    /\ ~ReloadedFromStorage
    /\ activeRow > 0
    /\ columns[activeCol + 1].scrollOff > 0

\* the fields of the board but the view and the captured task
BoardFields ==
    <<cfgStatuses, files, tasks, columns, activeCol, activeRow, width, height,
      err, clearAllCount, lastClickCol, lastClickRow, sinceClick, titleSeq,
      running>>

\* a task is at the active row of the active column
TaskAtCursor ==
    /\ activeCol >= 0
    /\ activeCol < Len(columns)
    /\ activeRow >= 0
    /\ activeRow < Len(columns[activeCol + 1].tasks)

\* C10: the delete key in Normal enters ConfirmDelete exactly when a task is
\* at the active row of the active column, capturing the id and title of
\* that task and changing nothing else; otherwise the view stays Normal and
\* no field of the board changes.
C10_DeleteStart ==
    [][ \A key \in {"d", "D"} :
            (view = viewBoard /\ KeyStep(key, NoFault)) =>
                IF TaskAtCursor
                THEN /\ view' = viewConfirmDelete
                     /\ deleteID' = columns[activeCol + 1].tasks[activeRow + 1]
                     /\ deleteTitle' = TaskTitle(deleteID')
                     /\ UNCHANGED BoardFields
                ELSE /\ view' = viewBoard
                     /\ UNCHANGED <<deleteID, deleteTitle>>
                     /\ UNCHANGED BoardFields
      ]_vars

\* the dialog opened on a task that is not the first of its column
C10_Witness ==
    /\ last.op = "deleteStart"
    /\ view = viewConfirmDelete
    /\ activeRow > 0
    /\ deleteID = columns[activeCol + 1].tasks[activeRow + 1]
    /\ deleteTitle = TaskTitle(deleteID)

----------------------------------------------------------------------------
(* The board under two configurations, one listing the archived status and *)
(* one that does not: two columns, the keys of the dialogs with the       *)
(* storage calls in all their outcomes, and reloads. The board is the only *)
(* writer and the terminal is not sized.                                   *)

ConfigKeys == {"C", "d", "y", "n", "j", "l"}

InitConfig == InitOver({TwoColumns, NoArchive}, FileStatuses(TwoColumns))

NextConfig ==
    \/ KeyMsg(ConfigKeys)
    \/ Reload

SpecConfig == InitConfig /\ [][NextConfig]_vars

\* the tasks the latest successful reload read whose status is not archived
LoadedNonArchived ==
    {t \in TaskIds : /\ last.loaded # <<>>
                     /\ last.loaded[t] \notin {Malformed, ArchivedStatus}}

\* C11: the clear-all key in Normal enters ConfirmClearAll exactly when the
\* latest reload loaded a task that is not archived, capturing the number of
\* such tasks; otherwise the view stays Normal. For every configuration, the
\* ones without an archived status included.
C11_ClearAllStart ==
    [][ (view = viewBoard /\ KeyStep("C", NoFault)) =>
            IF LoadedNonArchived # {}
            THEN /\ view' = viewConfirmClearAll
                 /\ clearAllCount' = Cardinality(LoadedNonArchived)
            ELSE view' = viewBoard
      ]_vars

----------------------------------------------------------------------------
(* C12: quitting. Checked under Spec.                                      *)

\* C12: ctrl+c terminates the program from Normal, ConfirmDelete and
\* ConfirmClearAll alike; q and escape terminate it only from Normal, and in
\* either dialog they cancel the dialog: the view returns to Normal and the
\* program keeps running.
C12_QuitKeys ==
    [][ \A key \in {"ctrl+c", "q", keyEsc} :
            KeyStep(key, NoFault) =>
                IF key = "ctrl+c" \/ view = viewBoard
                THEN running' = "quit"
                ELSE running' = "running" /\ view' = viewBoard ]_vars

\* ctrl+c has ended the program from inside the clear-all dialog
C12_Witness ==
    /\ last.op = "ctrl+c"
    /\ view = viewConfirmClearAll
    /\ running = "quit"


----------------------------------------------------------------------------
(* The board under the pointer: two columns holding every task, a terminal *)
(* of MaxWidth columns in two heights, the navigation and dialog-opening   *)
(* keys, n to leave a dialog, every mouse event, and time passing between  *)
(* messages in units of 250 ms. No task file changes.                      *)

PointerKeys == {"h", "left", "l", "right", "j", "down", "k", "up", "enter",
                "d", "D", "C", "n"}

PointerHeights == {MaxHeight \div 2, MaxHeight}

InitPointer == InitOver({TwoColumns}, {"todo", "doing"})

NextPointer ==
    \/ KeyMsg(PointerKeys)
    \/ MouseMsg
    \/ WindowSizeMsg({MaxWidth}, PointerHeights)
    \/ Advance

SpecPointer == InitPointer /\ [][NextPointer]_vars

----------------------------------------------------------------------------
(* C13: the dialogs are modal. Checked under SpecPointer.                  *)

\* the keys that navigate, activate or open a dialog in Normal
DialogInertKeys == {"h", "left", "l", "right", "j", "down", "k", "up", "enter",
                    "d", "D", "C"}

\* C13: while the view is ConfirmDelete or ConfirmClearAll, the navigation
\* keys (h, j, k, l and the arrows), enter, d, D, C and every mouse event
\* leave activeCol, activeRow, every scroll offset, the double-click tracking,
\* the captured payload and the view unchanged, and trigger no activate.
C13_DialogsAreModal ==
    [][ ( /\ view \in {viewConfirmDelete, viewConfirmClearAll}
          /\ \/ \E key \in DialogInertKeys : KeyStep(key, NoFault)
             \/ MouseMsg )
        => /\ UNCHANGED <<activeCol, activeRow, columns, lastClickCol,
                          lastClickRow, sinceClick, deleteID, deleteTitle,
                          clearAllCount, view>>
           /\ ~last'.activate ]_vars

\* a dialog opened over a scrolled column with the cursor below the first
\* row, shortly after a card was clicked, has just swallowed a key or a mouse
\* event (no handler branch acted on the latest message)
C13_Witness ==
    /\ view = viewConfirmDelete
    /\ last.op = "none"
    /\ HasActiveTasks
    /\ ActiveColumn.scrollOff > 0
    /\ activeRow > 0
    /\ last.hit # <<>>
    /\ sinceClick < doubleClickUnits

----------------------------------------------------------------------------
(* C20: double-click. Checked under SpecPointer, where one unit of         *)
(* sinceClick is 250 ms and NewBoard leaves lastClickTime the zero time,   *)
(* further than any Duration from now.                                     *)

\* C20: in Normal, a card hit triggers activate exactly when the card hit
\* immediately before it was on the same (column, row) and strictly less than
\* 500 ms earlier: at 500 ms or more it does not fire, the first card hit of a
\* session never fires, and a hit on another cell in between prevents it.
C20_DoubleClick ==
    [][ last'.op = "cardHit"    \* the message was a mouse press that hit a card
        => (last'.activate <=> /\ last.hit = last'.hit
                               /\ sinceClick < doubleClickUnits) ]_vars

\* a second hit on the card in row 1 within 500 ms has triggered activate
C20_Witness ==
    /\ last.op = "cardHit"
    /\ last.activate
    /\ last.hit[2] = 1
    /\ view = viewBoard

----------------------------------------------------------------------------
(* C14: a reload that finds what the last one found. Checked under         *)
(* SpecLayout, where no task file ever changes.                            *)

\* the message was a reload signal, its read succeeded, and the files are as
\* the successful read before it found them
ReloadFindsTheSame ==
    /\ last'.op = "reload"
    /\ last'.reload = "ok"
    /\ last.loaded = files

\* C14: a successful reload that finds the same tasks as before leaves
\* activeCol, activeRow, the view and the scroll offset of every column, the
\* active one and the others, exactly as they were.
C14_ReloadSameTasksKeepsPlace ==
    [][ ReloadFindsTheSame =>
            /\ UNCHANGED <<activeCol, activeRow, view>>
            /\ Len(columns') = Len(columns)
            /\ \A i \in 1..Len(columns) :
                   columns'[i].scrollOff = columns[i].scrollOff ]_vars

----------------------------------------------------------------------------
(* C15: the cursor after a reload that shortened its column. Checked under *)
(* Spec, where deletes, clear-alls and writes by other processes shorten   *)
(* the column.                                                             *)

\* the number of tasks the active column holds after the step
ActiveLenAfter ==
    IF activeCol' < Len(columns') THEN Len(columns'[activeCol' + 1].tasks) ELSE 0

\* C15: after a reload in which the active column became shorter than the
\* active row, the active row is the index of the column's last remaining
\* task, or 0 if the column is now empty; the active column is unchanged and
\* the active row indexes a task of the column whenever there is one.
C15_ReloadClampsRow ==
    [][ (last'.reload = "ok" /\ activeRow >= ActiveLenAfter)
        => /\ activeCol' = activeCol
           /\ activeRow' = IF ActiveLenAfter = 0 THEN 0 ELSE ActiveLenAfter - 1
           /\ activeRow' < Max(ActiveLenAfter, 1) ]_vars

\* the cursor stood on task 2, the last task of its column whenever it is
\* shown, when the delete was confirmed; the write and the reload succeeded,
\* the column is one shorter at least and still holds a second row, and the
\* cursor is on its last row
C15_Witness ==
    /\ last.op = "deleteYes"
    /\ last.sel = 2
    /\ deleteID = 2
    /\ last.fail = "none"
    /\ last.reload = "ok"
    /\ files[2] = ArchivedStatus
    /\ HasActiveTasks
    /\ Len(ActiveColumn.tasks) = 2
    /\ activeRow = 1

----------------------------------------------------------------------------
(* C16: what a reload builds. Checked under SpecConfig.                    *)

\* the ids a sequence of tasks holds
Ids(seq) == {seq[i] : i \in 1..Len(seq)}

\* the columns are the configured statuses without the archived one, in order
ColumnsAreBoardStatuses ==
    [i \in 1..Len(columns) |-> columns[i].status]
        = SelectSeq(cfgStatuses, LAMBDA s : s # ArchivedStatus)

\* each column holds, once each, the tasks read whose status is its own
ColumnsHoldTheirStatus ==
    \A i \in 1..Len(columns) :
        /\ Ids(columns[i].tasks)
               = {t \in TaskIds : last.loaded[t] = columns[i].status}
        /\ Cardinality(Ids(columns[i].tasks)) = Len(columns[i].tasks)

\* no task of the board and of its columns has the archived status
NoArchivedTaskOnBoard ==
    \A t \in Ids(tasks) \cup UNION {Ids(columns[i].tasks) : i \in 1..Len(columns)} :
        last.loaded[t] # ArchivedStatus

\* C16: after every successful reload the columns are exactly the configured
\* statuses without the archived status, in configuration order; each column
\* holds exactly the loaded tasks whose status is the column's; and no task
\* with the archived status is in the board's task set or in any column.
C16_ReloadPartitions ==
    last.reload = "ok" =>
        /\ ColumnsAreBoardStatuses
        /\ ColumnsHoldTheirStatus
        /\ NoArchivedTaskOnBoard

----------------------------------------------------------------------------
(* C17: the order inside a column. Checked under Spec; tasks 1 and 3 have  *)
(* the same priority, and the listing returns task 1 first.                *)

\* the position of task t in the listing of the tasks directory
ListingIndex(t) == CHOOSE i \in 1..Len(Listing) : Listing[i] = t

\* the tasks of col run from the highest priority to the lowest
ByPriorityDescending(col) ==
    \A p, q \in 1..Len(col.tasks) :
        p < q => PriorityIndex(TaskPriority(col.tasks[p]))
                     >= PriorityIndex(TaskPriority(col.tasks[q]))

\* tasks of col with the same priority are in the order of the listing
TiesInListingOrder(col) ==
    \A p, q \in 1..Len(col.tasks) :
        (p < q /\ TaskPriority(col.tasks[p]) = TaskPriority(col.tasks[q]))
            => ListingIndex(col.tasks[p]) < ListingIndex(col.tasks[q])

\* C17: after every reload, the tasks of each column are ordered from the
\* highest to the lowest configured priority, and tasks of equal priority
\* keep the relative order in which the storage listing returned them.
C17_SortedStable ==
    last.reload = "ok" =>
        \A i \in 1..Len(columns) :
            /\ ByPriorityDescending(columns[i])
            /\ TiesInListingOrder(columns[i])

----------------------------------------------------------------------------
(* C18: a reload whose read fails. Checked under Spec.                     *)

\* C18: a reload whose read fails sets the current error and leaves tasks,
\* columns, the disambiguation map, activeCol, activeRow, the scroll offsets
\* and the view unchanged, and the program keeps running; a successful reload
\* leaves no error.
C18_FailedReloadKeepsBoard ==
    [][ /\ (last'.op = "reload" /\ last'.reload = "failed")
            => /\ err' = "reading tasks directory"
               /\ running' = "running"
               /\ UNCHANGED <<tasks, columns, titleSeq, activeCol, activeRow, view>>
        /\ (last'.op = "reload" /\ last'.reload = "ok") => err' = "nil" ]_vars

\* a reload has failed over a board that shows tasks, with the cursor below
\* the first row of a scrolled column
C18_Witness ==
    /\ last.op = "reload"
    /\ last.reload = "failed"
    /\ err = "reading tasks directory"
    /\ HasActiveTasks
    /\ activeRow > 0
    /\ ActiveColumn.scrollOff > 0

----------------------------------------------------------------------------
(* The board over a changing task directory: two columns, task files that  *)
(* other processes move between the configured statuses, leave unparseable *)
(* or give a status the configuration does not list, reloads in both       *)
(* outcomes, and the keys that move the cursor down and to the right.      *)

FilesKeys == {"j", "l"}

InitFiles ==
    InitOver({TwoColumns}, FileStatuses(TwoColumns) \cup {Malformed, OtherStatus})

NextFiles ==
    \/ Reload
    \/ External
    \/ Damage
    \/ KeyMsg(FilesKeys)

SpecFiles == InitFiles /\ [][NextFiles]_vars

----------------------------------------------------------------------------
(* C19: malformed task files. Checked under SpecFiles.                     *)

\* a reload signal arrives while some task file is malformed, and the
\* directory itself can be listed
ReloadOverMalformed ==
    /\ \E t \in TaskIds : files[t] = Malformed
    /\ running = "running"
    /\ Becomes(loadTasks([Cur EXCEPT !.h.op = "reload"], TRUE))

\* the ids of the tasks in the columns after the step
ShownAfter == UNION {Ids(columns'[i].tasks) : i \in 1..Len(columns')}

\* the files that parse and do not have the archived status
WellFormedNonArchived == {t \in TaskIds : files[t] \notin {Malformed, ArchivedStatus}}

----------------------------------------------------------------------------
(* The board with its watcher: one column, at most MaxEvents file events,  *)
(* each a change of a task file or a chmod, Run and the debounce timer in  *)
(* every interleaving with the passing of time, the ReloadMsgs the         *)
(* callback sends, and q, after which runTUI cancels the watcher.          *)

WatcherKeys == {"q"}

InitWatcher == InitOver({OneColumn}, FileStatuses(OneColumn))

NextWatcher ==
    \/ FileEvent
    \/ RunEvent
    \/ TimerFires
    \/ Callback
    \/ PassTime
    \/ WatcherReload
    \/ KeyMsg(WatcherKeys)
    \/ Cancel
    \/ RunDone

SpecWatcher == InitWatcher /\ [][NextWatcher]_vars

----------------------------------------------------------------------------
(* C21: debouncing. Checked under SpecWatcher.                             *)

----------------------------------------------------------------------------
(* C22: cancellation. Checked under SpecWatcher.                           *)

\* C22: once the watcher's context has been cancelled and Run has returned,
\* the callback is never invoked again, whatever debounce timer was pending
\* or firing at that moment (Run itself returns without waiting for a
\* callback).
C22_NoCallbackAfterReturn == ~watcher.afterReturn

----------------------------------------------------------------------------
(* C23: the board belongs to the event loop. Checked under SpecWatcher.    *)

\* the fields of the Board
EveryBoardField ==
    <<tasks, columns, activeCol, activeRow, view, width, height, err, deleteID,
      deleteTitle, clearAllCount, lastClickCol, lastClickRow, titleSeq>>

\* tasks, columns and titleSeq stem from one reload: every task of a column
\* is in the task list, and every key of the map is a task of a column
FromOneReload ==
    /\ \A i \in 1..Len(columns) : Ids(columns[i].tasks) \subseteq Ids(tasks)
    /\ DOMAIN titleSeq \subseteq UNION {Ids(columns[i].tasks) : i \in 1..Len(columns)}

\* C23: the board is read and written only by the event loop, one message
\* at a time: no step of the watcher goroutine, of its timer or of the
\* callback changes a field of the board, the callback only enqueues a
\* ReloadMsg, and in every state between two messages the task list, the
\* columns and the disambiguation map stem from the same reload.
C23_EventLoopOwnsBoard ==
    /\ []FromOneReload
    /\ [][ /\ (RunEvent \/ RunDone \/ TimerFires \/ Callback)
                => UNCHANGED EveryBoardField
           /\ (Callback /\ running = "running")
                => watcher'.pending = watcher.pending + 1 ]_vars

\* the callback's ReloadMsg has been processed after a task with a duplicate
\* title left the board: the map has lost its keys with the column
C23_Witness ==
    /\ last.op = "reload"
    /\ last.reload = "ok"
    /\ watcher.callbacks > 0
    /\ last.loaded[1] = ArchivedStatus
    /\ Len(tasks) = 2
    /\ titleSeq = <<>>

----------------------------------------------------------------------------
(* The board of five equal cards: one column holding five tasks of the     *)
(* same height, the keys that move the cursor up and down, terminals of    *)
(* MaxWidth columns and every height up to MaxTallHeight, and reloads,     *)
(* which put the column back to scroll offset 0 under the cursor.          *)

TallKeys == {"j", "k"}

InitTall ==
    \E ok \in BOOLEAN :
        Is(loadTasks(NewBoard(OneColumn, [t \in EqualIds |-> "todo"]), ok))

NextTall ==
    \/ KeyMsg(TallKeys)
    \/ WindowSizeMsg({MaxWidth}, 0..MaxTallHeight)
    \/ Reload

SpecTall == InitTall /\ [][NextTall]_vars

----------------------------------------------------------------------------
(* C24: the scenario of five cards. Checked under SpecTall.                *)

\* the active column holds five cards of one height, and at scroll offset 0
\* three of them fit
FiveCardsThreeFit ==
    /\ HasActiveTasks
    /\ Len(ActiveColumn.tasks) = 5
    /\ \A i \in 1..5 : cardHeight(ActiveColumn.tasks[i], columnWidth(Cur))
                            = cardHeight(ActiveColumn.tasks[1], columnWidth(Cur))
    /\ visibleCardsForColumn(Cur, [ActiveColumn EXCEPT !.scrollOff = 0],
                              columnWidth(Cur)) = 3

\* C24: with five cards of equal height in the active column, a terminal
\* height at which three cards fit, scroll offset 0 and the cursor moved to
\* row 4, ensureVisible ends with scroll offset 2; the rendered window is
\* rows [2,5), the up indicator reports 2 more and no down indicator is drawn.
C24_FiveCardsScenario ==
    FiveCardsThreeFit =>
        LET r == ensureVisible(BoardAt(activeCol + 1, 0, 4))
            col == r.columns[activeCol + 1]
            drawn == renderColumn(r, col, columnWidth(r))
        IN  /\ col.scrollOff = 2
            /\ drawn.start = 2
            /\ drawn.end = 5
            /\ drawn.up = 2
            /\ drawn.down = 0

\* a reload has put the column of five cards back to scroll offset 0 with
\* the cursor on row 4, and its ensureVisible has scrolled to offset 2
C24_Witness ==
    /\ FiveCardsThreeFit
    /\ last.op = "reload"
    /\ last.reload = "ok"
    /\ last.ev = "visible"
    /\ activeRow = 4
    /\ ActiveColumn.scrollOff = 2

----------------------------------------------------------------------------
(* Age colors: ageStyle over every configured threshold list of at most    *)
(* MaxThresholds entries and a range of durations.                         *)

AgeColors == {"34", "196"}

\* an entry of tui.age_thresholds: "0h".."MaxHours h" or an unparsable After
AgeEntries == [After : {<<n>> : n \in 0..MaxHours} \cup {<<>>}, Color : AgeColors]

AgeLists == UNION {[1..n -> AgeEntries] : n \in 0..MaxThresholds}

\* the durations a card's age is drawn from, in hours
AgeDurations == (-1..(MaxHours + 1)) \cup {24, 72, 168}

InitAge ==
    \E configured \in AgeLists, d \in AgeDurations :
        Is([loadTasks(NewBoard(OneColumn, [t \in TaskIds |-> "todo"]), TRUE)
               EXCEPT !.call = [fn |-> "ageStyle", configured |-> configured,
                                d |-> d, out |-> "pending"]])

\* renderCard asks ageStyle for the color of a duration
AgeStyle ==
    /\ call.fn = "ageStyle"
    /\ call.out = "pending"
    /\ Becomes([Cur EXCEPT !.call.out = ageStyle(call.configured, call.d),
                            !.h.op = "ageStyle"])

NextAge == AgeStyle

SpecAge == InitAge /\ [][NextAge]_vars

\* the thresholds of ts that the duration d meets or exceeds
MetBy(ts, d) == {i \in 1..Len(ts) : d >= ts[i].After}

\* C25: for every configured threshold list and every duration d, ageStyle
\* returns the color of the threshold with the largest duration that d meets
\* or exceeds, or the dim default when d meets none; the thresholds it walks
\* are in ascending order of duration.
C25_AgeStyleLargestThreshold ==
    last.op = "ageStyle" =>
        LET ts == AgeThresholdsDuration(call.configured)
            met == MetBy(ts, call.d)
        IN  /\ \A i, j \in 1..Len(ts) : i < j => ts[i].After <= ts[j].After
            /\ IF met = {} THEN call.out = dimStyle
               ELSE \E i \in met :
                        /\ \A j \in met : ts[j].After <= ts[i].After
                        /\ call.out = ts[i].Color

----------------------------------------------------------------------------
(* Wrapping: wrapTitle over every text of at most MaxText characters,      *)
(* every width and every line limit.                                       *)

Characters == {"a", "b", " "}

Texts == UNION {[1..n -> Characters] : n \in 0..MaxText}

InitTitle ==
    \E title \in Texts, maxWidth \in 1..MaxWrapWidth, maxLines \in 0..MaxLines :
        Is([loadTasks(NewBoard(OneColumn, [t \in TaskIds |-> "todo"]), TRUE)
               EXCEPT !.call = [fn |-> "wrapTitle", title |-> title,
                                maxWidth |-> maxWidth, maxLines |-> maxLines,
                                out |-> <<>>]])

\* the card composer wraps a text
WrapTitle ==
    /\ call.fn = "wrapTitle"
    /\ last.op # "wrapTitle"
    /\ Becomes([Cur EXCEPT !.call.out = wrapTitle(call.title, call.maxWidth,
                                                  call.maxLines),
                            !.h.op = "wrapTitle"])

NextTitle == WrapTitle

SpecTitle == InitTitle /\ [][NextTitle]_vars

\* C26: wrapTitle(text, maxWidth, maxLines) returns at most maxLines lines,
\* each of display width at most maxWidth, for every text, every maxWidth of
\* at least 1 and every maxLines of at least 1.
C26_WrapTitleWithinBox ==
    (last.op = "wrapTitle" /\ call.maxLines >= 1) =>
        /\ Len(call.out) <= call.maxLines
        /\ \A i \in 1..Len(call.out) : Len(call.out[i]) <= call.maxWidth

RECURSIVE JoinLines(_)
\* strings.Join(lines, " ")
JoinLines(lines) ==
    IF lines = <<>> THEN <<>>
    ELSE IF Len(lines) = 1 THEN lines[1]
    ELSE lines[1] \o <<" ">> \o JoinLines(Tail(lines))

\* the line ends in the ellipsis truncate puts after its cut
Truncated(line) == Len(line) >= 3 /\ SubSeq(line, Len(line) - 2, Len(line)) = <<".", ".", ".">>

----------------------------------------------------------------------------
(* C28: which clicks select a card. Checked under SpecLayout.              *)

\* the screen line y of col lies on one of the cards renderColumn draws, the
\* line of the up indicator counted in
OnVisibleCard(b, col, y) ==
    With(renderColumn(b, col, columnWidth(b)), LAMBDA drawn :
        /\ y >= 1
        /\ y < 1 + (IF drawn.up > 0 THEN 1 ELSE 0)
                 + SumHeights(col, drawn.start, drawn.end - drawn.start,
                              columnWidth(b)))

\* C28: in the board view a left press selects a card only if the clicked
\* line lies within one of the visible cards of the column, rows
\* [scrollOff, scrollOff + visible); a click on any other line (above the
\* first card, down indicator, blank area, status bar) changes only the
\* active column, re-clamps the row and leaves the double-click tracking.
C28_ClickSelectsVisibleCardOnly ==
    (running = "running" /\ view = viewBoard /\ columnWidth(Cur) > 0) =>
        \A c \in 0..(Len(columns) - 1), y \in 0..Max(height - 1, 0) :
            With(handleMouse(Cur, TRUE, c * columnWidth(Cur), y), LAMBDA r :
                IF OnVisibleCard(Cur, columns[c + 1], y)
                THEN r.h.op \in {"cardHit", "columnHit"}
                ELSE r = clampRow([Cur EXCEPT !.activeCol = c,
                                              !.h.op = "columnHit"]))

----------------------------------------------------------------------------
(* Runs of clicks: two columns, presses on every line of them, time        *)
(* passing between the presses, two terminal heights. The presses are      *)
(* counted: how many card hits in a row landed on one cell, each less than *)
(* 500 ms after the one before, and how many of them activated.            *)

\* the count after handleMouse has taken the board from b to r
countHit(b, r) ==
    IF r.h.op # "cardHit" THEN r
    ELSE LET chained == /\ b.h.run > 0
                        /\ b.h.hit = r.h.hit
                        /\ b.sinceClick < doubleClickUnits
             act == IF r.h.activate THEN 1 ELSE 0
         IN  IF chained
             THEN [r EXCEPT !.h.run = Min(b.h.run + 1, 4),
                            !.h.fired = Min(b.h.fired + act, 4)]
             ELSE [r EXCEPT !.h.run = 1, !.h.fired = act]

\* Update(tea.MouseMsg) for a left press, counted
Click ==
    /\ running = "running"
    /\ \E c \in 0..Len(columns), y \in 0..Max(height - 1, 0) :
           Becomes(countHit(Cur, handleMouse(Cur, TRUE, c * columnWidth(Cur), y)))

InitClicks == InitOver({TwoColumns}, {"todo", "doing"})

NextClicks ==
    \/ Click
    \/ WindowSizeMsg({MaxWidth}, PointerHeights)
    \/ Advance

SpecClicks == InitClicks /\ [][NextClicks]_vars

\* C29 as stated: three card hits on the same cell, each less than 500 ms
\* after the previous one, trigger the activate action exactly once.
C29_ThreeHitsActivateOnce ==
    last.run = 3 => last.fired = 1

\* C29: three card hits on the same cell, each less than 500 ms after the
\* previous one, trigger the activate action twice: the tracking is updated
\* on every card hit, the second hit completes a pair with the first and the
\* third completes a pair with the second. The first hit of a run does not
\* activate.
C29_EveryFollowingHitActivates ==
    /\ last.run = 1 => last.fired = 0
    /\ last.run = 2 => last.fired = 1
    /\ last.run = 3 => last.fired = 2

\* the third hit of a run has just been handled and has activated
C29_Witness ==
    /\ last.op = "cardHit"
    /\ last.run = 3
    /\ last.activate

----------------------------------------------------------------------------
(* Navigation: five cards of equal height over two columns, the            *)
(* navigation keys under both of their names, two terminal heights.        *)

ArrowKeys == {"h", "left", "l", "right", "j", "down", "k", "up"}

NavHeights == {MaxHeight, MaxTallHeight}

InitNav ==
    \E fs \in [EqualIds -> {"todo", "doing"}], ok \in BOOLEAN :
        Is(loadTasks(NewBoard(TwoColumns, fs), ok))

NextNav ==
    \/ KeyMsg(ArrowKeys)
    \/ WindowSizeMsg({MaxWidth}, NavHeights)
    \/ Reload

SpecNav == InitNav /\ [][NextNav]_vars

\* b and r agree on every field of the board but the active column, the
\* active row and the scroll offset of r's active column
NavigationFrame(b, r) ==
    /\ [r EXCEPT !.activeCol = b.activeCol, !.activeRow = b.activeRow,
                  !.columns = b.columns, !.h = b.h] = b
    /\ Len(r.columns) = Len(b.columns)
    /\ \A i \in 1..Len(b.columns) :
           IF i = r.activeCol + 1
           THEN [r.columns[i] EXCEPT !.scrollOff = b.columns[i].scrollOff]
                    = b.columns[i]
           ELSE r.columns[i] = b.columns[i]

\* the row clampRow leaves after a change to column c: the previous row or
\* the last index of c if that is smaller, 0 in an empty column
RowIn(b, c, row) ==
    IF Len(b.columns[c + 1].tasks) = 0 THEN 0
    ELSE Min(row, Len(b.columns[c + 1].tasks) - 1)

\* C30: in the board view left/right change the active column by exactly
\* one and do nothing at the first/last column; after a column change the
\* active row is min(previous row, last index of the new column), or 0 if
\* the new column is empty; up/down change the active row by exactly one
\* inside [0, len(tasks)-1] and do nothing at the ends; no other field of the
\* board changes except the scroll offset of the active column.
C30_Navigation ==
    (running = "running" /\ view = viewBoard) =>
        \A key \in ArrowKeys :
            With(handleKey(Cur, key, NoFault), LAMBDA r :
                /\ NavigationFrame(Cur, r)
                /\ key \in {"h", "left"} =>
                       IF activeCol = 0 THEN [r EXCEPT !.h = Cur.h] = Cur
                       ELSE /\ r.activeCol = activeCol - 1
                            /\ r.activeRow = RowIn(Cur, activeCol - 1, activeRow)
                /\ key \in {"l", "right"} =>
                       IF activeCol >= Len(columns) - 1
                       THEN [r EXCEPT !.h = Cur.h] = Cur
                       ELSE /\ r.activeCol = activeCol + 1
                            /\ r.activeRow = RowIn(Cur, activeCol + 1, activeRow)
                /\ key \in {"j", "down"} =>
                       IF Len(columns) = 0 \/ activeRow >= Len(ActiveColumn.tasks) - 1
                       THEN [r EXCEPT !.h = Cur.h] = Cur
                       ELSE /\ r.activeCol = activeCol
                            /\ r.activeRow = activeRow + 1
                /\ key \in {"k", "up"} =>
                       IF activeRow = 0 THEN [r EXCEPT !.h = Cur.h] = Cur
                       ELSE /\ r.activeCol = activeCol
                            /\ r.activeRow = activeRow - 1
                            /\ Len(columns) > 0
                            /\ r.activeRow <= Len(ActiveColumn.tasks) - 1)

\* right has moved the cursor from a longer column into a column of two or
\* more cards and has left it on the last of them
C30_Witness ==
    /\ last.op = "right"
    /\ activeCol = 1
    /\ Len(columns[1].tasks) > Len(columns[2].tasks)
    /\ activeRow = Len(columns[2].tasks) - 1
    /\ activeRow >= 1

----------------------------------------------------------------------------
(* C31: the disambiguation map. Checked under SpecFiles.                   *)

\* the tasks placed in a column
Placed == UNION {Ids(columns[i].tasks) : i \in 1..Len(columns)}

\* <<column, row>> of a placed task
PlaceOf(t) ==
    CHOOSE p \in {<<i, j>> : i \in 1..Len(columns), j \in 1..Len(tasks)} :
        p[2] <= Len(columns[p[1]].tasks) /\ columns[p[1]].tasks[p[2]] = t

\* u comes before t in column order and then row order
ComesBefore(u, t) ==
    \/ PlaceOf(u)[1] < PlaceOf(t)[1]
    \/ PlaceOf(u)[1] = PlaceOf(t)[1] /\ PlaceOf(u)[2] < PlaceOf(t)[2]

\* the placed tasks with the title of t
SameTitle(t) == {u \in Placed : TaskTitle(u) = TaskTitle(t)}

\* C31: after every successful reload the disambiguation map has an entry
\* exactly for the placed tasks whose title at least two placed tasks share;
\* the k tasks of a shared title carry the numbers 1..k in column order and
\* then row order; tasks with a unique title have no entry and the map holds
\* nothing else.
C31_TitleSeqNumbersSharedTitles ==
    last.reload = "ok" =>
        /\ DOMAIN titleSeq = {t \in Placed : Cardinality(SameTitle(t)) >= 2}
        /\ \A t \in DOMAIN titleSeq :
               titleSeq[t] = 1 + Cardinality({u \in SameTitle(t) : ComesBefore(u, t)})
        /\ \A t \in DOMAIN titleSeq :
               {titleSeq[u] : u \in SameTitle(t)} = 1..Cardinality(SameTitle(t))

\* a reload has numbered two tasks of one title that sit in different columns
C31_Witness ==
    /\ last.op = "reload"
    /\ last.reload = "ok"
    /\ \E t, u \in DOMAIN titleSeq :
           /\ PlaceOf(u)[1] < PlaceOf(t)[1]
           /\ titleSeq[u] = 1
           /\ titleSeq[t] = 2

----------------------------------------------------------------------------
(* Ticks: the board with its delete dialog, reloads and writes by other    *)
(* processes, and the tick that Init starts and every TickMsg renews.      *)

TickKeys == {"j", "k", "d", "y", "n", "q"}

InitTick == InitOver({OneColumn}, FileStatuses(OneColumn))

NextTick ==
    \/ KeyMsg(TickKeys)
    \/ WindowSizeMsg({MaxWidth}, {MaxHeight})
    \/ Reload
    \/ External
    \/ TickFires
    \/ Tick

SpecTick == InitTick /\ [][NextTick]_vars

\* while the program runs one tick is under way: a timer or its message
OneTickPending == running = "running" => ticks.timers + ticks.queued = 1

\* C32: processing a TickMsg performs no reload and changes no field of the
\* board (tasks, columns, cursor, scroll offsets, view, payload, error); it
\* only schedules one next tick, so that from Init on exactly one tick is
\* pending at any time: ticks neither stop nor multiply.
C32_TickOnlyRenewsItself ==
    /\ []OneTickPending
    /\ [][ last'.op = "tick"
            => /\ UNCHANGED EveryBoardField
               /\ UNCHANGED <<files, cfgStatuses, running>>
               /\ last'.reload = "none"
               /\ ticks'.timers = ticks.timers + 1
               /\ ticks'.queued = ticks.queued - 1 ]_vars

\* a TickMsg has been processed while the task files differ from what the
\* board loaded last, and the board still shows that
C32_Witness ==
    /\ last.op = "tick"
    /\ last.loaded # <<>>
    /\ \E t \in TaskIds : last.loaded[t] # files[t]
    /\ ticks = BoardInit

----------------------------------------------------------------------------
(* Create commands (runCreate) of several processes on one board. A        *)
(* process calls filelock.Lock, loads the config, writes the task file,    *)
(* saves the config with the incremented next_id and returns, which runs   *)
(* the deferred unlock. Every step after Lock may return an error.         *)

\* as lockFile, but granting the lock whoever holds it
lockFileShared(c, p) == TRUE

\* lockFile: flock(LOCK_EX) returns once no other process holds the lock
lockFile(c, p) == c.holders = {}

\* an error return of runCreate, with its deferred unlock
failCreate(c, p) ==
    [c EXCEPT !.pc[p] = "failed", !.holders = c.holders \ {p}]

\* runCreate is started and calls filelock.Lock
StartCreate(p) ==
    /\ creates.pc[p] = "idle"
    /\ Becomes([Cur EXCEPT !.creates.pc[p] = "waiting"])

\* filelock.Lock returns
LockAcquired(p) ==
    /\ creates.pc[p] = "waiting"
    /\ lockFile(creates, p)
    /\ Becomes([Cur EXCEPT !.creates.pc[p] = "locked",
                            !.creates.holders = creates.holders \cup {p}])

\* config.Load and the task built with ID: cfg.NextID
LoadConfig(p) ==
    /\ creates.pc[p] = "locked"
    /\ \E ok \in BOOLEAN :
           Becomes([Cur EXCEPT !.creates =
               IF ok THEN [creates EXCEPT !.pc[p] = "loaded", !.id[p] = creates.nextId]
               ELSE failCreate(creates, p)])

\* flags, validation, WIP limit and task.Write
WriteTask(p) ==
    /\ creates.pc[p] = "loaded"
    /\ \E ok \in BOOLEAN :
           Becomes([Cur EXCEPT !.creates =
               IF ok THEN [creates EXCEPT !.pc[p] = "written",
                                          !.written = creates.written \cup {creates.id[p]}]
               ELSE failCreate(creates, p)])

\* cfg.NextID++ and cfg.Save
SaveConfig(p) ==
    /\ creates.pc[p] = "written"
    /\ \E ok \in BOOLEAN :
           Becomes([Cur EXCEPT !.creates =
               IF ok THEN [creates EXCEPT !.pc[p] = "saved",
                                          !.nextId = creates.id[p] + 1]
               ELSE failCreate(creates, p)])

\* runCreate reports the task it created and returns; the deferred unlock runs
CreateReturns(p) ==
    /\ creates.pc[p] = "saved"
    /\ Becomes([Cur EXCEPT !.creates.pc[p] = "created",
                            !.creates.holders = creates.holders \ {p}])

InitCreate == InitOver({OneColumn}, {"todo"})

NextCreate ==
    \E p \in Creators :
        \/ StartCreate(p)
        \/ LockAcquired(p)
        \/ LoadConfig(p)
        \/ WriteTask(p)
        \/ SaveConfig(p)
        \/ CreateReturns(p)

SpecCreate == InitCreate /\ [][NextCreate]_vars

\* the processes whose create has its task id and has not failed
HasId == {p \in Creators : creates.pc[p] \in {"loaded", "written", "saved", "created"}}

\* C33: create commands running concurrently on one board each obtain a
\* distinct task id: the exclusive lock is held from before the config
\* (next_id) is loaded until after the incremented next_id is saved, and at
\* most one process holds the lock at a time while the others block.
C33_CreatesGetDistinctIds ==
    /\ \A p, q \in HasId : p # q => creates.id[p] # creates.id[q]
    /\ Cardinality(creates.holders) <= 1
    /\ \A p \in Creators :
           creates.pc[p] \in {"locked", "loaded", "written", "saved"}
               <=> p \in creates.holders
    /\ \A p \in Creators :
           creates.pc[p] = "created" => creates.nextId > creates.id[p]

\* one command has created its task and returned, a second has saved the
\* config with the id after that one and still holds the lock, a third waits
C33_Witness ==
    \E p, q \in Creators :
        /\ p # q
        /\ creates.pc[p] = "created"
        /\ creates.pc[q] = "saved"
        /\ creates.id[q] = creates.id[p] + 1
        /\ \E r \in Creators : creates.pc[r] = "waiting"

----------------------------------------------------------------------------
(* The height budget: two columns, navigation, and every message that      *)
(* changes the budget or the card widths without moving the cursor:        *)
(* resizes, errors reported to the board, reloads that fail.               *)

BudgetKeys == {"h", "l", "j", "k"}

InitBudget == InitOver({TwoColumns}, {"todo", "doing"})

NextBudget ==
    \/ KeyMsg(BudgetKeys)
    \/ WindowSizeMsg({0, MaxWidth}, 0..MaxHeight)
    \/ Reload
    \/ ErrMsg

SpecBudget == InitBudget /\ [][NextBudget]_vars

\* C34: in every reachable state with a non-empty active column, the states
\* right after a WindowSizeMsg, an errMsg or a failed reload included, the
\* active row lies inside the visible window of the active column,
\* [scrollOff, scrollOff + visibleCardsForColumn).
C34_ActiveRowAlwaysVisible ==
    (Len(columns) > 0 /\ Len(ActiveColumn.tasks) > 0) => ActiveRowVisible

----------------------------------------------------------------------------
(* Narrow terminals: two columns, every terminal width from 0 to MaxWidth, *)
(* presses in every column and right of the last one.                      *)

NarrowKeys == {"j", "l"}

InitNarrow == InitOver({TwoColumns}, {"todo", "doing"})

NextNarrow ==
    \/ KeyMsg(NarrowKeys)
    \/ MouseMsg
    \/ WindowSizeMsg(0..MaxWidth, PointerHeights)

SpecNarrow == InitNarrow /\ [][NextNarrow]_vars

\* C35: columnWidth() is at least 1 in every reachable state, so handleMouse
\* never divides by zero, for every terminal width, a width smaller than the
\* number of columns included, and every mouse X coordinate.
C35_ColumnWidthPositive ==
    /\ columnWidth(Cur) >= 1
    /\ running # "panic"

----------------------------------------------------------------------------
(* C36: the card under the pointer. Checked under SpecLayout.              *)

RECURSIVE drawnRowFrom(_, _, _, _, _, _)
\* the row of col whose card covers screen line y, the cards of rows
\* row..end-1 being drawn from screen line `line` on; -1 if none does
drawnRowFrom(col, w, y, row, end, line) ==
    IF row >= end \/ y < line THEN -1
    ELSE IF y < line + cardHeight(col.tasks[row + 1], w) THEN row
    ELSE drawnRowFrom(col, w, y, row + 1, end,
                      line + cardHeight(col.tasks[row + 1], w))

\* renderColumn: the row whose card is drawn on screen line y of col: the
\* header is line 0, the up indicator, if drawn, line 1, then the cards
DrawnOn(b, col, y) ==
    With(renderColumn(b, col, columnWidth(b)), LAMBDA drawn :
        drawnRowFrom(col, columnWidth(b), y, drawn.start, drawn.end,
                     1 + (IF drawn.up > 0 THEN 1 ELSE 0)))

\* C36: for every scroll offset, the task handleMouse selects for a press on
\* screen line y inside a column is the task whose card renderColumn draws
\* on line y of that column, also when the up indicator is drawn between
\* the header and the first card.
C36_ClickSelectsDrawnCard ==
    (running = "running" /\ view = viewBoard /\ columnWidth(Cur) > 0) =>
        \A c \in 0..(Len(columns) - 1), y \in 0..Max(height - 1, 0) :
            With(DrawnOn(Cur, columns[c + 1], y), LAMBDA d :
                d >= 0 =>
                    With(handleMouse(Cur, TRUE, c * columnWidth(Cur), y), LAMBDA r :
                        /\ r.h.op = "cardHit"
                        /\ r.h.hit = <<c, d>>))

----------------------------------------------------------------------------
(* The board under every kind of message: two columns, the first holding  *)
(* every task, the keys that move the cursor and those of the two dialogs, *)
(* the mouse, resizes, and reloads in both outcomes.                       *)

CursorKeys == {"l", "j", "k", "d", "C", "y", "n"}

InitCursor == InitOver({TwoColumns}, {"todo"})

NextCursor ==
    \/ KeyMsg(CursorKeys)
    \/ MouseMsg
    \/ WindowSizeMsg({MaxWidth}, {MaxHeight \div 2})
    \/ Reload

SpecCursor == InitCursor /\ [][NextCursor]_vars

----------------------------------------------------------------------------
(* C37: the cursor stays on the board. Checked under SpecCursor.           *)

\* C37: in every reachable state 0 <= activeCol < number of columns whenever
\* there is a column, and 0 <= activeRow <= max(0, len(tasks of the active
\* column) - 1); hence selectedTask returns a task, the one in the active
\* row, whenever the active column is non-empty.
C37_CursorOnBoard ==
    Len(columns) > 0 =>
        /\ 0 <= activeCol
        /\ activeCol < Len(columns)
        /\ 0 <= activeRow
        /\ activeRow <= Max(0, Len(ActiveColumn.tasks) - 1)
        /\ Len(ActiveColumn.tasks) > 0 =>
               /\ selectedTask(Cur) # 0
               /\ selectedTask(Cur) = ActiveColumn.tasks[activeRow + 1]

\* a confirmed delete has archived the task in the last row of a column and
\* the reload has put the cursor on the row above
C37_Witness ==
    /\ last.op = "deleteYes"
    /\ last.reload = "ok"
    /\ last.fail = "none"
    /\ Len(ActiveColumn.tasks) >= 1
    /\ activeRow = Len(ActiveColumn.tasks) - 1
    /\ files[last.sel] = ArchivedStatus
    /\ \A i \in 1..Len(ActiveColumn.tasks) :
           PriorityIndex(TaskPriority(ActiveColumn.tasks[i]))
               <= PriorityIndex(TaskPriority(last.sel))

----------------------------------------------------------------------------
(* C38: the task total of the status bar against the cards of the columns. *)
(* Checked under SpecConfig.                                               *)

\* the cards of all columns: (column, row) pairs
Cards ==
    {p \in (1..Len(columns)) \X (1..Len(tasks)) : p[2] <= Len(columns[p[1]].tasks)}

\* C38: after every successful reload len(b.tasks), the total of the status
\* bar and the count of the clear-all dialog, equals the number of cards over
\* all columns, and every task of b.tasks sits in exactly one column.
C38_TotalEqualsCards ==
    last.reload = "ok" =>
        /\ Len(tasks) = Cardinality(Cards)
        /\ \A k \in 1..Len(tasks) :
               Cardinality({p \in Cards : columns[p[1]].tasks[p[2]] = tasks[k]}) = 1

----------------------------------------------------------------------------
(* The board with its watcher under the scheduling of the Go runtime and   *)
(* of the event loop: the goroutine of Run receives an event that waits on *)
(* fsw.Events, time passes, a due timer fires, a started goroutine runs    *)
(* the callback, the event loop handles a message that was sent, and the   *)
(* deferred cancel of runTUI runs once the program has ended.              *)

InitWatcherLive == InitOver({OneColumn}, {"todo"})

\* the file events are those of one task file
NextWatcherLive ==
    \/ FileEventOn({1})
    \/ RunEvent
    \/ TimerFires
    \/ Callback
    \/ PassTime
    \/ WatcherReload
    \/ KeyMsg(WatcherKeys)
    \/ Cancel
    \/ RunDone

SpecWatcherLive ==
    /\ InitWatcherLive
    /\ [][NextWatcherLive]_vars
    /\ WF_vars(RunEvent)
    /\ WF_vars(PassTime)
    /\ WF_vars(TimerFires)
    /\ WF_vars(Callback)
    /\ WF_vars(WatcherReload)
    /\ WF_vars(Cancel)
    /\ WF_vars(RunDone)

----------------------------------------------------------------------------
(* C39: a file event ends in a reload. Checked under SpecWatcherLive.      *)

\* the k-th file event is a meaningful one and waits on fsw.Events
EventWaiting(k) ==
    /\ watcher.arrived = k
    /\ watcher.events # <<>>
    /\ watcher.events[Len(watcher.events)] \in Meaningful

\* the timer has fired, every callback it started has run, and Update has
\* just handled the last ReloadMsg that was sent
ReloadReachedBoard ==
    /\ last.op = "reload"
    /\ watcher.timer = "fired"
    /\ watcher.callbacks > 0
    /\ watcher.started = 0
    /\ watcher.pending = 0

\* C39: when a meaningful file event has arrived at the watcher, and from
\* then on no further event arrives and the context is not cancelled, the
\* callback is eventually invoked and its ReloadMsg is eventually handled
\* by the board. (P /\ []R => <>Q in every state is P ~> (Q \/ ~R).)
C39_EventLeadsToReload ==
    \A k \in 1..MaxEvents :
        EventWaiting(k) ~> \/ ReloadReachedBoard
                           \/ watcher.arrived # k
                           \/ watcher.ctx # "active"

\* the last of the file events, a write, has been debounced, the callback
\* has run and the board has reloaded, while the context is active
C39_Witness ==
    /\ ReloadReachedBoard
    /\ watcher.arrived = MaxEvents
    /\ watcher.events = <<>>
    /\ watcher.ctx = "active"
    /\ watcher.run = "running"
    /\ running = "running"
    /\ last.reload = "ok"

----------------------------------------------------------------------------
(* The archive next to another writer: one column holding every task, the  *)
(* keys that open and cancel the two dialogs, and the storage calls of     *)
(* executeDelete and executeClearAll as steps of their own, between which  *)
(* another process (an agent hook, the CLI) rewrites a task file with a    *)
(* change to a field other than the status. task.Write puts the whole      *)
(* task, as it was read, in place of the file (os.WriteFile); neither      *)
(* handler takes a lock.                                                   *)

ArchiveKeys == {"j", "d", "C", "n"}

\* a key of the board or of a dialog, other than yes
ArchiveKey ==
    /\ archive.pc = "idle"
    /\ KeyMsg(ArchiveKeys)

\* another process reads a task file, changes a field and writes the file
ExternalChange ==
    /\ archive.made < MaxChanges
    /\ \E t \in TaskIds :
           LET c == archive.made + 1 IN
           Becomes([Cur EXCEPT !.archive.made = c,
                               !.archive.content[t] = archive.content[t] \cup {c},
                               !.archive.changed[t] = archive.changed[t] \cup {c}])

\* y in ConfirmDelete, executeDelete up to task.Read
DeleteReads ==
    /\ running = "running"
    /\ view = viewConfirmDelete
    /\ archive.pc = "idle"
    /\ Becomes([Cur EXCEPT !.archive.pc = "delete",
                            !.archive.copy[deleteID] = archive.content[deleteID]])

\* executeDelete from task.Write on
DeleteWrites ==
    /\ archive.pc = "delete"
    /\ Becomes(executeDelete(
           [Cur EXCEPT !.archive.pc = "idle",
                       !.archive.content[deleteID] = archive.copy[deleteID],
                       !.archive.archived = archive.archived \cup {deleteID},
                       !.h.op = "deleteYes",
                       !.h.sel = selectedTask(Cur)],
           TRUE, TRUE, TRUE, TRUE))

\* y in ConfirmClearAll, executeClearAll up to task.ReadAllLenient
ClearAllReads ==
    /\ running = "running"
    /\ view = viewConfirmClearAll
    /\ archive.pc = "idle"
    /\ Becomes([Cur EXCEPT
           !.archive.pc = "clearAll",
           !.archive.copy = archive.content,
           !.archive.todo = {t \in TaskIds :
                                /\ files[t] # Malformed
                                /\ ~IsArchivedStatus(cfgStatuses, files[t])}])

\* executeClearAll, one pass of its loop: task.Write of the next task
ClearAllWrites ==
    /\ archive.pc = "clearAll"
    /\ archive.todo # {}
    /\ LET t == CHOOSE x \in archive.todo : \A y \in archive.todo : x <= y IN
       Becomes([Cur EXCEPT !.files[t] = ArchivedStatus,
                           !.archive.content[t] = archive.copy[t],
                           !.archive.todo = archive.todo \ {t},
                           !.archive.archived = archive.archived \cup {t}])

\* executeClearAll after its loop
ClearAllLoads ==
    /\ archive.pc = "clearAll"
    /\ archive.todo = {}
    /\ Becomes(loadTasks([Cur EXCEPT !.archive.pc = "idle",
                                      !.view = viewBoard,
                                      !.h.op = "clearYes"], TRUE))

InitArchive == InitOver({OneColumn}, {"todo"})

NextArchive ==
    \/ ArchiveKey
    \/ ExternalChange
    \/ DeleteReads
    \/ DeleteWrites
    \/ ClearAllReads
    \/ ClearAllWrites
    \/ ClearAllLoads

SpecArchive == InitArchive /\ [][NextArchive]_vars

----------------------------------------------------------------------------
(* C40: the archive and a concurrent writer. Checked under SpecArchive.    *)

\* C40: once the board's handler and the other process have finished, every
\* task file the board has archived holds the archived status together with
\* every change another process has written to it.
C40_ArchiveKeepsExternalChange ==
    archive.pc = "idle" =>
        \A t \in archive.archived :
            /\ files[t] = ArchivedStatus
            /\ archive.content[t] = archive.changed[t]
====
